---- MODULE Spec2Model ----
(***************************************************************************)
(* A model of omnilang's f-string externalisation engine                   *)
(* (src/omnilang/core/converter.py): the analyzer that finds user-facing   *)
(* strings in a parsed Python file, the transformer that computes one      *)
(* replacement per accepted string, and the byte-oriented patch loop of    *)
(* convert_file that splices the replacements into the file.               *)
(*                                                                         *)
(* Text is a sequence of characters; a character is a one-character string *)
(* ("a", "(", "\n") or, for a character outside ASCII, the name of its     *)
(* code point ("U2705" is the check-mark pictograph).  A byte is a pair    *)
(* <<character, k>>: the k-th byte of the character's UTF-8 encoding.      *)
(***************************************************************************)
EXTENDS Integers, Sequences, FiniteSets, TLC

VARIABLES
    disk,             \* file id -> the bytes of the file
    ast,              \* file id -> what ast.parse returns for disk[f]
    dry_run,          \* ASTFStringConverter.dry_run
    run,              \* number of the converter run (a fresh ASTFStringConverter each)
    cur,              \* index of the file scan_and_convert is at
    pc,               \* position inside scan_and_convert's loop body
    fstrings,         \* file id -> what analyze_file returned for it in this run
    stats,            \* ASTFStringConverter.stats
    all_conversions,  \* ASTFStringConverter.all_conversions
    written,          \* run -> the file ids whose bytes that run has overwritten
    before,           \* file id -> the bytes of the file when the current run began
    patch,            \* the patch loop of convert_file: its inputs, its locals, its result
    backup,           \* ASTFStringConverter.backup
    backups,          \* the file ids create_backups has copied to the backup directory in this run
    fault,            \* file id -> what goes wrong when the file is opened, decoded, parsed or written
    outcome,          \* file id -> what scan_and_convert reported for the file in this run
    last_run,         \* what the previous run over the directory started from and computed
    call,             \* a function called on its own, or do_refactor: its arguments, its position, its result
    path              \* file id -> the path of the file

vars == <<disk, ast, dry_run, run, cur, pc, fstrings, stats, all_conversions, written, before, patch,
          backup, backups, fault, outcome, last_run, call, path>>

(***************************************************************************)
(* Bounds of the model.                                                    *)
(***************************************************************************)
MaxStmts == 2    \* statements per generated source file
MaxRuns == 2     \* converter runs over the same directory
MaxReps == 2     \* replacements handed to the stand-alone patch loop
MaxFiles == 2    \* files of a scanned directory
MaxTokens == 3   \* tokens of a generated string content

(***************************************************************************)
(* Sequences.                                                              *)
(***************************************************************************)
Min(a, b) == IF a < b THEN a ELSE b

\* Python's s[a:b] for 0 <= a, 0 <= b: half open, 0-based, clamped to the sequence.
Slice(s, a, b) == SubSeq(s, a + 1, Min(b, Len(s)))

RECURSIVE ConcatRange(_, _, _)
\* parts[lo] \o ... \o parts[hi], by halves
ConcatRange(parts, lo, hi) ==
    IF lo > hi THEN <<>>
    ELSE IF lo = hi THEN parts[lo]
    ELSE ConcatRange(parts, lo, (lo + hi) \div 2) \o ConcatRange(parts, (lo + hi) \div 2 + 1, hi)

\* b"".join(parts) / "".join(parts)
Concat(parts) == ConcatRange(parts, 1, Len(parts))

\* the elements of the set S of numbers of 1..n, in ascending order
Ascending(n, S) == SelectSeq([i \in 1..n |-> i], LAMBDA i : i \in S)

\* reversed(parts)
Reversed(s) == [i \in 1..Len(s) |-> s[Len(s) + 1 - i]]

RECURSIVE Join(_, _)
\* sep.join(parts)
Join(parts, sep) ==
    IF parts = <<>> THEN <<>>
    ELSE IF Len(parts) = 1 THEN parts[1]
    ELSE parts[1] \o sep \o Join(Tail(parts), sep)

\* needle in hay (substring test)
Contains(hay, needle) ==
    \E i \in 1..(Len(hay) - Len(needle) + 1) : SubSeq(hay, i, i + Len(needle) - 1) = needle

\* hay.startswith(prefix)
StartsWith(hay, prefix) ==
    Len(prefix) <= Len(hay) /\ SubSeq(hay, 1, Len(prefix)) = prefix

(***************************************************************************)
(* Characters and their UTF-8 encoding.                                    *)
(***************************************************************************)
ThreeByteChars ==
    {"U2705", "U274C", "U26A0", "UFE0F", "U2500", "U2510", "U2518", "U250C", "U2514",
     "U256D", "U256E", "U2570", "U256F"}
FourByteChars ==
    {"U1F525", "U1F30D", "U1F527", "U1F680", "U1F9F9", "U1F52C", "U1F3AF", "U1F4E6", "U1F50D"}

\* len(c.encode('utf-8'))
Utf8Len(c) == IF c \in FourByteChars THEN 4 ELSE IF c \in ThreeByteChars THEN 3 ELSE 1

\* c.encode('utf-8')
EncodeChar(c) == [k \in 1..Utf8Len(c) |-> <<c, k>>]

\* text.encode('utf-8')
Encode(text) == Concat([i \in 1..Len(text) |-> EncodeChar(text[i])])

\* len(text.encode('utf-8')): the unit of the parser's col_offset
ByteLen(text) == Len(Encode(text))

NL == <<"\n", 1>>
CR == <<"\r", 1>>

(***************************************************************************)
(* The patch loop of convert_file.                                         *)
(***************************************************************************)
\* A line of bytes.splitlines(keepends=True) ends at byte i (1-based).
LineEndsAt(source_bytes, i) ==
    \/ source_bytes[i] = NL
    \/ source_bytes[i] = CR /\ (i = Len(source_bytes) \/ source_bytes[i + 1] # NL)
    \/ i = Len(source_bytes)

\* line_start_indices: [0] and then the running byte length after every line
LineStartIndices(source_bytes) ==
    <<0>> \o Ascending(Len(source_bytes),
                       {i \in 1..Len(source_bytes) : LineEndsAt(source_bytes, i)})

\* the sort key of a replacement compared with another's: (start_line, start_col)
KeyLess(a, b) ==
    \/ a.start_line < b.start_line
    \/ a.start_line = b.start_line /\ a.start_col < b.start_col

RECURSIVE InsertDesc(_, _)
\* x goes after every element whose key is not smaller than x's: the sort is stable
InsertDesc(sorted, x) ==
    IF sorted = <<>> THEN <<x>>
    ELSE IF KeyLess(Head(sorted), x) THEN <<x>> \o sorted
    ELSE <<Head(sorted)>> \o InsertDesc(Tail(sorted), x)

RECURSIVE SortRec(_, _)
SortRec(acc, rest) ==
    IF rest = <<>> THEN acc ELSE SortRec(InsertDesc(acc, Head(rest)), Tail(rest))

\* the list as recorded, not sorted
RecordedOrder(conversions_made) == conversions_made

\* sorted(conversions_made, key=(start_line, start_col), reverse=True)
SortReplacements(conversions_made) == SortRec(<<>>, conversions_made)

\* the locals of the loop before its first iteration
PatchStart(source_bytes) ==
    [new_source_parts |-> <<>>, last_pos |-> Len(source_bytes), applied |-> <<>>,
     skipped |-> <<>>, failed |-> FALSE]

\* start_idx = line_start_indices[rep['start_line'] - 1] + rep['start_col']
StartIdx(line_start_indices, rep) == line_start_indices[rep.start_line] + rep.start_col

\* end_idx = line_start_indices[rep['end_line'] - 1] + rep['end_col']
EndIdx(line_start_indices, rep) == line_start_indices[rep.end_line] + rep.end_col

\* the validation of the loop: if start_idx >= last_pos: continue
SpanConflict(line_start_indices, last_pos, rep) ==
    StartIdx(line_start_indices, rep) >= last_pos

\* one iteration of `for rep in replacements`
PatchStep(source_bytes, line_start_indices, st, rep) ==
    IF st.failed THEN st
    ELSE IF rep.start_line > Len(line_start_indices) \/ rep.end_line > Len(line_start_indices)
    THEN [st EXCEPT !.failed = TRUE]                 \* IndexError, caught at the end of convert_file
    ELSE IF SpanConflict(line_start_indices, st.last_pos, rep)
    THEN [st EXCEPT !.skipped = Append(@, rep)]
    ELSE [st EXCEPT !.new_source_parts =
                        @ \o <<Slice(source_bytes, EndIdx(line_start_indices, rep), st.last_pos),
                               Encode(rep.replacement_text)>>,
                    !.last_pos = StartIdx(line_start_indices, rep),
                    !.applied = Append(@, rep)]

RECURSIVE PatchLoop(_, _, _, _)
PatchLoop(source_bytes, line_start_indices, st, replacements) ==
    IF replacements = <<>> THEN st
    ELSE PatchLoop(source_bytes, line_start_indices,
                   PatchStep(source_bytes, line_start_indices, st, Head(replacements)),
                   Tail(replacements))

\* the parts joined in the order the loop appended them
ReassembleInLoopOrder(source_bytes, st) ==
    Concat(Append(st.new_source_parts, Slice(source_bytes, 0, st.last_pos)))

\* new_source_parts.append(source_bytes[0:last_pos]); b"".join(reversed(new_source_parts))
Reassemble(source_bytes, st) ==
    Concat(Reversed(Append(st.new_source_parts, Slice(source_bytes, 0, st.last_pos))))

\* the whole of lines 501-553 on a recorded replacement list
PatchBytes(source_bytes, conversions_made) ==
    Reassemble(source_bytes,
               PatchLoop(source_bytes, LineStartIndices(source_bytes), PatchStart(source_bytes),
                         SortReplacements(conversions_made)))

(***************************************************************************)
(* Python string literals: repr() as ast.unparse writes a str Constant,    *)
(* and the value the parser gives a literal.                               *)
(***************************************************************************)
SQ == "'"
DQ == "\""
BS == "\\"

ReprEscapeQuotesOnly(c, quote) ==
    IF c = quote THEN <<BS, c>>
    ELSE IF c = "\n" THEN <<BS, "n">>
    ELSE IF c = "\t" THEN <<BS, "t">>
    ELSE IF c = "\r" THEN <<BS, "r">>
    ELSE <<c>>

\* one character of repr(value) inside the quotes `quote`
ReprEscape(c, quote) ==
    IF c = BS THEN <<BS, BS>>
    ELSE IF c = quote THEN <<BS, c>>
    ELSE IF c = "\n" THEN <<BS, "n">>
    ELSE IF c = "\t" THEN <<BS, "t">>
    ELSE IF c = "\r" THEN <<BS, "r">>
    ELSE <<c>>

ReprBody(value, quote) == Concat([i \in 1..Len(value) |-> ReprEscape(value[i], quote)])

HasChar(text, c) == \E i \in 1..Len(text) : text[i] = c

\* repr(value): single quotes, unless the value holds a single quote and no double quote
Repr(value) ==
    LET quote == IF HasChar(value, SQ) /\ ~HasChar(value, DQ) THEN DQ ELSE SQ
    IN  <<quote>> \o ReprBody(value, quote) \o <<quote>>

\* the character an escape sequence \c stands for
Unescape(c) ==
    IF c = "n" THEN "\n" ELSE IF c = "t" THEN "\t" ELSE IF c = "r" THEN "\r" ELSE c

RECURSIVE BackslashRun(_, _)
\* the number of backslashes that end at body[i]
BackslashRun(body, i) ==
    IF i = 0 \/ body[i] # BS THEN 0 ELSE 1 + BackslashRun(body, i - 1)

\* body[i] is the backslash that opens an escape sequence
OpensEscape(body, i) ==
    i >= 1 /\ i < Len(body) /\ body[i] = BS /\ BackslashRun(body, i) % 2 = 1

\* the value of the text between the quotes of a literal
LitBody(body) ==
    Concat([i \in 1..Len(body) |->
               IF OpensEscape(body, i) THEN <<>>
               ELSE IF OpensEscape(body, i - 1) THEN <<Unescape(body[i])>>
               ELSE <<body[i]>>])

\* the opening quote of a literal: one quote character, or three
QuoteOf(lit) ==
    IF Len(lit) >= 6 /\ lit[1] = lit[2] /\ lit[2] = lit[3] THEN SubSeq(lit, 1, 3)
    ELSE SubSeq(lit, 1, 1)

\* ast.parse on a string literal: node.value
ParseLit(lit) ==
    LET q == Len(QuoteOf(lit)) IN LitBody(SubSeq(lit, q + 1, Len(lit) - q))

(***************************************************************************)
(* Syntax trees.  A node is a record with its class name in t.  A node     *)
(* keeps what the parser drops but the file holds: the literal as written  *)
(* (lit, q) and whether a binary operator was written without blanks       *)
(* (tight); a statement keeps the rest of its line (trail: a comment).     *)
(***************************************************************************)
Name(id) == [t |-> "Name", id |-> id]
Str(lit) == [t |-> "Constant", lit |-> lit, value |-> ParseLit(lit)]
Seg(value) == [t |-> "Constant", seg |-> TRUE, value |-> value]
FValue(value, conversion, format_spec) ==
    [t |-> "FormattedValue", value |-> value, conversion |-> conversion, format_spec |-> format_spec]
NoSpec == [t |-> "None"]
FormatSpec(values) == [t |-> "JoinedStr", spec |-> TRUE, values |-> values]
FStr(q, values) == [t |-> "JoinedStr", q |-> q, values |-> values]
Call(func, args) == [t |-> "Call", func |-> func, args |-> args]
Attribute(value, attr) == [t |-> "Attribute", value |-> value, attr |-> attr]
BinOp(left, op, right, tight) ==
    [t |-> "BinOp", left |-> left, op |-> op, right |-> right, tight |-> tight]
TupleOf(elts) == [t |-> "Tuple", elts |-> elts]
ExprStmt(value, trail) == [t |-> "Expr", value |-> value, trail |-> trail]
Assign(target, value, trail) ==
    [t |-> "Assign", target |-> target, value |-> value, trail |-> trail]
ImportFrom(module, names, trail) ==
    [t |-> "ImportFrom", module |-> module, names |-> names, trail |-> trail]

IsSeg(n) == n.t = "Constant" /\ "seg" \in DOMAIN n
IsSpec(n) == n.t = "JoinedStr" /\ "spec" \in DOMAIN n

\* a literal segment of an f-string as the file holds it: { and } doubled
DoubleBraces(value) ==
    Concat([i \in 1..Len(value) |->
               IF value[i] \in {"{", "}"} THEN <<value[i], value[i]>> ELSE <<value[i]>>])

\* chr(value.conversion)
Chr(conversion) ==
    CASE conversion = 114 -> "r" [] conversion = 115 -> "s" [] conversion = 97 -> "a"

\* the conversion flag as written: nothing, or !r, !s, !a
ConversionSrc(conversion) == IF conversion = -1 THEN <<>> ELSE <<"!", Chr(conversion)>>

RECURSIVE Src(_)
RECURSIVE SrcAll(_)
\* the source text of a node, as the file holds it
Src(n) ==
    CASE n.t = "Name" -> n.id
      [] n.t = "Constant" -> IF IsSeg(n) THEN DoubleBraces(n.value) ELSE n.lit
      [] n.t = "FormattedValue" ->
            <<"{">> \o Src(n.value) \o ConversionSrc(n.conversion)
            \o (IF n.format_spec.t = "None" THEN <<>> ELSE <<":">> \o Src(n.format_spec))
            \o <<"}">>
      [] n.t = "JoinedStr" ->
            IF IsSpec(n) THEN Concat(SrcAll(n.values))
            ELSE <<"f">> \o n.q \o Concat(SrcAll(n.values)) \o n.q
      [] n.t = "Call" -> Src(n.func) \o <<"(">> \o Join(SrcAll(n.args), <<","," ">>) \o <<")">>
      [] n.t = "Attribute" -> Src(n.value) \o <<".">> \o n.attr
      [] n.t = "BinOp" ->
            Src(n.left) \o (IF n.tight THEN n.op ELSE <<" ">> \o n.op \o <<" ">>) \o Src(n.right)
      [] n.t = "Tuple" -> Join(SrcAll(n.elts), <<","," ">>)
      [] n.t = "Expr" -> Src(n.value)
      [] n.t = "Assign" -> Src(n.target) \o <<" ","="," ">> \o Src(n.value)
      [] n.t = "ImportFrom" -> <<"f","r","o","m"," ">> \o n.module \o <<" ","i","m","p","o","r","t"," ">> \o Join(n.names, <<","," ">>)

SrcAll(nodes) == [i \in 1..Len(nodes) |-> Src(nodes[i])]

RECURSIVE ModuleText(_)
\* the text of a file: its statements, one to a line (a literal may hold line breaks)
ModuleText(body) ==
    IF body = <<>> THEN <<>>
    ELSE Src(Head(body)) \o Head(body).trail \o <<"\n">> \o ModuleText(Tail(body))

RECURSIVE Unparse(_)
RECURSIVE UnparseAll(_)
RECURSIVE UnparseFStringBody(_)
\* ast.unparse(node)
Unparse(n) ==
    CASE n.t = "Name" -> n.id
      [] n.t = "Constant" -> Repr(n.value)
      [] n.t = "JoinedStr" ->
            LET body == UnparseFStringBody(n.values)
                quote == IF HasChar(body, SQ) THEN DQ ELSE SQ
            IN  <<"f", quote>> \o body \o <<quote>>
      [] n.t = "Call" -> Unparse(n.func) \o <<"(">> \o Join(UnparseAll(n.args), <<","," ">>) \o <<")">>
      [] n.t = "Attribute" -> Unparse(n.value) \o <<".">> \o n.attr
      [] n.t = "BinOp" -> Unparse(n.left) \o <<" ">> \o n.op \o <<" ">> \o Unparse(n.right)
      [] n.t = "Tuple" -> <<"(">> \o Join(UnparseAll(n.elts), <<","," ">>) \o <<")">>

UnparseAll(nodes) == [i \in 1..Len(nodes) |-> Unparse(nodes[i])]

\* the inside of an unparsed f-string: segments with their braces doubled, {expr!c:spec}
UnparseFStringBody(values) ==
    IF values = <<>> THEN <<>>
    ELSE LET v == Head(values)
         IN  (IF v.t = "Constant" THEN DoubleBraces(v.value)
              ELSE <<"{">> \o Unparse(v.value) \o ConversionSrc(v.conversion)
                   \o (IF v.format_spec.t = "None" THEN <<>>
                       ELSE <<":">> \o UnparseFStringBody(v.format_spec.values))
                   \o <<"}">>)
             \o UnparseFStringBody(Tail(values))

(***************************************************************************)
(* Where the parser says a node is: lineno (1-based) and col_offset, the   *)
(* UTF-8 byte offset in the line, of the character at 0-based offset off.  *)
(***************************************************************************)
\* the positions of the line breaks of text[0:off]
Breaks(text, off) == {i \in 1..off : text[i] = "\n"}

\* the number of characters of text[0:off] up to and including its last line break
LastBreak(text, off) ==
    CHOOSE i \in 0..off :
        /\ i = 0 \/ text[i] = "\n"
        /\ \A j \in (i + 1)..off : text[j] # "\n"

CountBreaks(text, off) == Cardinality(Breaks(text, off))

ColOffsetInChars(text, off) == off - LastBreak(text, off)

\* node.col_offset / node.end_col_offset
ColOffset(text, off) == ByteLen(SubSeq(text, LastBreak(text, off) + 1, off))

\* node.lineno / node.end_lineno
LineNo(text, off) == 1 + CountBreaks(text, off)

\* location_key = (node.lineno, node.col_offset)
LocationKey(text, off) == <<LineNo(text, off), ColOffset(text, off)>>

RECURSIVE SplitLines(_)
\* source_code.splitlines()
SplitLines(text) ==
    IF text = <<>> THEN <<>>
    ELSE LET n == CHOOSE k \in 1..(Len(text) + 1) :
                     /\ \A j \in 1..(k - 1) : text[j] # "\n"
                     /\ k = Len(text) + 1 \/ text[k] = "\n"
         IN  <<SubSeq(text, 1, n - 1)>> \o SplitLines(SubSeq(text, n + 1, Len(text)))

RECURSIVE Offsets(_, _, _)
\* the offsets of nodes written one after another from off, sep characters between them
Offsets(nodes, off, sep) ==
    IF nodes = <<>> THEN <<>>
    ELSE <<off>> \o Offsets(Tail(nodes), off + Len(Src(Head(nodes))) + sep, sep)

Pairs(nodes, offs) == [i \in 1..Len(nodes) |-> [node |-> nodes[i], off |-> offs[i]]]

\* ast.iter_child_nodes(node), each child with the offset of its first character
Children(n, off) ==
    CASE n.t = "Call" ->
            <<[node |-> n.func, off |-> off]>>
            \o Pairs(n.args, Offsets(n.args, off + Len(Src(n.func)) + 1, 2))
      [] n.t = "Attribute" -> <<[node |-> n.value, off |-> off]>>
      [] n.t = "BinOp" ->
            <<[node |-> n.left, off |-> off],
              [node |-> n.right,
               off |-> off + Len(Src(n.left)) + Len(n.op) + (IF n.tight THEN 0 ELSE 2)]>>
      [] n.t = "Tuple" -> Pairs(n.elts, Offsets(n.elts, off, 2))
      [] n.t = "Expr" -> <<[node |-> n.value, off |-> off]>>
      [] n.t = "Assign" ->
            <<[node |-> n.target, off |-> off],
              [node |-> n.value, off |-> off + Len(Src(n.target)) + 3]>>
      [] n.t = "JoinedStr" ->
            Pairs(n.values, Offsets(n.values, IF IsSpec(n) THEN off ELSE off + 1 + Len(n.q), 0))
      [] n.t = "FormattedValue" ->
            <<[node |-> n.value, off |-> off + 1]>>
            \o (IF n.format_spec.t = "None" THEN <<>>
                ELSE <<[node |-> n.format_spec,
                        off |-> off + 1 + Len(Src(n.value)) + Len(ConversionSrc(n.conversion)) + 1]>>)
      [] OTHER -> <<>>

RECURSIVE StmtOffsets(_, _)
\* the offset of the first character of every statement of a module
StmtOffsets(body, off) ==
    IF body = <<>> THEN <<>>
    ELSE <<off>> \o StmtOffsets(Tail(body), off + Len(Src(Head(body))) + Len(Head(body).trail) + 1)

\* tree.body, each statement with its offset
ModuleChildren(body) == Pairs(body, StmtOffsets(body, 0))

(***************************************************************************)
(* FStringAnalyzer._is_user_facing_string                                  *)
(***************************************************************************)
UpperCase ==
    <<"A","B","C","D","E","F","G","H","I","J","K","L","M","N","O","P","Q","R","S","T","U","V","W","X","Y","Z">>
LowerCase ==
    <<"a","b","c","d","e","f","g","h","i","j","k","l","m","n","o","p","q","r","s","t","u","v","w","x","y","z">>
Digits == {"0","1","2","3","4","5","6","7","8","9"}
Whitespace == {" ", "\n", "\t", "\r"}

IsUpperChar(c) == \E i \in 1..26 : UpperCase[i] = c
IsLowerChar(c) == \E i \in 1..26 : LowerCase[i] = c

\* c.lower()
LowerChar(c) == IF IsUpperChar(c) THEN LowerCase[CHOOSE i \in 1..26 : UpperCase[i] = c] ELSE c

\* text.lower()
Lower(text) == [i \in 1..Len(text) |-> LowerChar(text[i])]

RECURSIVE LStripChars(_, _)
LStripChars(text, chars) ==
    IF text # <<>> /\ Head(text) \in chars THEN LStripChars(Tail(text), chars) ELSE text

\* text.strip(chars)
StripChars(text, chars) == Reversed(LStripChars(Reversed(LStripChars(text, chars)), chars))

\* text.strip()
Strip(text) == StripChars(text, Whitespace)

\* a word of text.split() starts at text[i]
WordStartsAt(text, i) ==
    text[i] \notin Whitespace /\ (i = 1 \/ text[i - 1] \in Whitespace)

\* the last character of the word that starts at text[i]
WordEnd(text, i) ==
    CHOOSE e \in i..Len(text) :
        /\ \A j \in i..e : text[j] \notin Whitespace
        /\ e = Len(text) \/ text[e + 1] \in Whitespace

\* text.split()
Words(text) ==
    LET starts == Ascending(Len(text), {i \in 1..Len(text) : WordStartsAt(text, i)})
    IN  [k \in 1..Len(starts) |-> SubSeq(text, starts[k], WordEnd(text, starts[k]))]

\* word.isupper(): a cased character, and no lower-case one
IsUpper(word) ==
    /\ \E i \in 1..Len(word) : IsUpperChar(word[i])
    /\ \A i \in 1..Len(word) : ~IsLowerChar(word[i])

\* word.isdigit()
IsDigit(word) == word # <<>> /\ \A i \in 1..Len(word) : word[i] \in Digits

CharSet(text) == {text[i] : i \in 1..Len(text)}
InList(x, list) == \E i \in 1..Len(list) : list[i] = x
AnyIn(list, hay) == \E i \in 1..Len(list) : Contains(hay, list[i])

pure_formatting_patterns ==
    <<<<"=">>, <<"-">>, <<"U2500">>, <<"U2510">>, <<"U2518">>, <<"U250C">>, <<"U2514">>, <<"U256D">>, <<"U256E">>, <<"U2570">>, <<"U256F">>,
      <<"-","-","-">>, <<"-","-","-","-">>, <<"-","-","-","-","-">>, <<"-","-","-","-","-","-">>,
      <<"=","=","=">>, <<"=","=","=","=">>, <<"=","=","=","=","=">>, <<"=","=","=","=","=","=">>,
      <<"_","_","_">>, <<"_","_","_","_">>, <<"_","_","_","_","_">>, <<"_","_","_","_","_","_">>>>

output_formatting ==
    <<<<"-","-","-"," ","s","t","d","e","r","r"," ","-","-","-">>, <<"-","-","-"," ","s","t","d","o","u","t"," ","-","-","-">>, <<"-","-","-","-","-","-","-","-","-","-","-","-","-","-">>,
      <<"-","-","-","-","-","-","-","-","-","-","-","-","-","-","-","-","-","-","-","-","-","-","-","-","-","-","-","-","-","-","-","-">>, <<"=","=","=","=","=","=","=","=","=","=","=","=","=","=","=","=","=","=","=","=","=","=","=","=">>,
      <<"~","~","~","~","~","~","~","~","~","~","~","~","~","~","~","~","~","~","~","~","~","~","~","~","~","~","~","~","~","~","~","~">>>>

single_emoji_formatting ==
    <<<<"U1F525">>, <<"U1F30D">>, <<"U2705">>, <<"U26A0","UFE0F">>, <<"U1F527">>, <<"U1F680">>, <<"U1F9F9">>, <<"U1F52C">>, <<"U1F3AF">>, <<"U1F4E6">>, <<"U1F50D">>, <<"U274C">>>>

technical_patterns ==
    <<<<".","p","y">>, <<".","j","s","o","n">>, <<".","d","i","s","t","-","i","n","f","o">>, <<".","e","g","g","-","i","n","f","o">>, <<".","l","o","c","k">>, <<".","t","m","p">>,
      <<"o","m","n","i","p","k","g",":","p","k","g",":">>, <<"o","m","n","i","p","k","g",":","s","n","a","p","s","h","o","t",":">>, <<"b","u","b","b","l","e","_","v","e","r","s","i","o","n",":">>, <<"a","c","t","i","v","e","_","v","e","r","s","i","o","n">>,
      <<"i","m","p","o","r","t"," ">>, <<"f","r","o","m"," ">>, <<"d","e","f"," ">>, <<"c","l","a","s","s"," ">>, <<"t","r","y",":">>, <<"e","x","c","e","p","t"," ">>, <<"f","i","n","a","l","l","y",":">>,
      <<"i","f"," ">>, <<"e","l","s","e",":">>, <<"e","l","i","f"," ">>, <<"f","o","r"," ">>, <<"w","h","i","l","e"," ">>, <<"r","e","t","u","r","n"," ">>, <<"y","i","e","l","d"," ">>,
      <<"w","i","t","h"," ">>, <<"a","s"," ">>, <<"p","a","s","s">>, <<"b","r","e","a","k">>, <<"c","o","n","t","i","n","u","e">>, <<"r","a","i","s","e"," ">>, <<"a","s","s","e","r","t"," ">>,
      <<"l","a","m","b","d","a"," ">>, <<"f","\"">>, <<"f","'">>, <<".","_","_">>, <<"s","y","s",".","p","a","t","h">>, <<"o","s",".","e","n","v","i","r","o","n">>>>

user_emojis ==
    <<<<"U2705">>, <<"U274C">>, <<"U26A0","UFE0F">>, <<"U1F50D">>, <<"U1F4E6">>, <<"U1F3AF">>, <<"U1F527">>, <<"U1F9F9">>, <<"U1F680">>, <<"U1F52C">>>>

\* the characters of the argument of word.strip(...) on line 225
strip_emojis == CharSet(<<"U1F525","U1F30D","U2705","U26A0","UFE0F","U1F527","U1F9F9","U1F680","U1F52C","U1F3AF","U1F4E6","U1F50D","U274C">>)

user_facing_patterns ==
    <<<<"e","r","r","o","r">>, <<"w","a","r","n","i","n","g">>, <<"s","u","c","c","e","s","s">>, <<"f","a","i","l","e","d">>, <<"c","o","m","p","l","e","t","e">>, <<"i","n","s","t","a","l","l">>,
      <<"r","e","m","o","v","e">>, <<"u","p","d","a","t","e">>, <<"f","o","u","n","d">>, <<"m","i","s","s","i","n","g">>, <<"v","e","r","s","i","o","n">>, <<"p","a","c","k","a","g","e">>,
      <<"d","e","p","e","n","d","e","n","c","y">>, <<"c","o","n","f","l","i","c","t">>, <<"p","r","e","s","s"," ","e","n","t","e","r">>, <<"a","r","e"," ","y","o","u"," ","s","u","r","e">>, <<"c","o","n","t","i","n","u","e">>,
      <<"c","a","n","c","e","l">>, <<"p","r","o","c","e","e","d">>, <<"s","e","l","e","c","t">>, <<"c","h","o","i","c","e">>, <<"s","k","i","p","p","i","n","g">>, <<"r","e","s","t","o","r","i","n","g">>,
      <<"c","l","e","a","r","i","n","g">>, <<"v","e","r","i","f","i","c","a","t","i","o","n">>, <<"c","l","e","a","n","u","p">>, <<"t","e","s","t">>, <<"s","w","i","t","c","h","i","n","g">>>>

context_prefixes == <<<<"p","r","i","n","t","(">>, <<"i","n","p","u","t","(">>, <<"_","(">>>>

\* a first block that knows the formatting rules only
IsTechnicalFormattingOnly(content) ==
    LET content_stripped == Strip(content)
    IN  \/ InList(content_stripped, pure_formatting_patterns)
        \/ Cardinality(CharSet(content_stripped)) = 1 /\ content_stripped[1] \in {"=", "-", "_", "~"}
        \/ Strip(content) = <<>>

\* rules 1 to 6 of the first block: the content is obviously technical
IsTechnical(content) ==
    LET content_lower == Lower(content)
        content_stripped == Strip(content)
        content_no_whitespace == Concat(Words(content))
    IN  \/ InList(content_stripped, pure_formatting_patterns)
        \/ Cardinality(CharSet(content_stripped)) = 1 /\ content_stripped[1] \in {"=", "-", "_", "~"}
        \/ InList(Strip(content_lower), [i \in 1..Len(output_formatting) |-> Lower(output_formatting[i])])
        \/ InList(content_no_whitespace, single_emoji_formatting)
        \/ /\ Len(content_no_whitespace) <= 3
           /\ CharSet(content_no_whitespace) \subseteq CharSet(Concat(single_emoji_formatting))
        \/ Strip(content) = <<>>
        \/ AnyIn(technical_patterns, content_lower)
        \/ (HasChar(content, "/") \/ HasChar(content, BS)) /\ ~HasChar(content, " ")

\* rule 1 of the second block: a pictograph and a word that is more than pictographs
EmojiWithText(content) ==
    /\ AnyIn(user_emojis, content)
    /\ \E i \in 1..Len(Words(content)) : StripChars(Words(content)[i], strip_emojis) # <<>>

\* rule 2: more than two words and a user-facing keyword
KeywordSentence(content) ==
    Len(Words(content)) > 2 /\ AnyIn(user_facing_patterns, Lower(content))

\* rule 3: the line the string is on starts with print(, input( or _(
ContextAccepts(context) ==
    \E i \in 1..Len(context_prefixes) : StartsWith(Lower(Strip(context)), context_prefixes[i])

\* rule 4: at least three words, sentence punctuation, not all upper-case or numeric
PlainSentence(content) ==
    LET words == Words(content)
    IN  /\ Len(words) >= 3
        /\ \E i \in 1..Len(content) : content[i] \in {".", ",", "!", "?", ":"}
        /\ ~(\A i \in 1..Len(words) : IsUpper(words[i]) \/ IsDigit(words[i]))

IsUserFacingIgnoringContext(content, context) ==
    /\ ~IsTechnical(content)
    /\ (EmojiWithText(content) \/ KeywordSentence(content) \/ PlainSentence(content))

\* a classifier without the second block: whatever is not technical is accepted
IsUserFacingUnlessTechnical(content, context) == ~IsTechnical(content)

\* _is_user_facing_string(content, context)
IsUserFacingString(content, context) ==
    /\ ~IsTechnical(content)
    /\ \/ EmojiWithText(content)
       \/ KeywordSentence(content)
       \/ ContextAccepts(context)
       \/ PlainSentence(content)

(***************************************************************************)
(* FStringAnalyzer: the visitor.  st is the analyzer's state               *)
(* (strings_to_convert, translated_locations); text is source_code.        *)
(***************************************************************************)
user_facing_funcs == {<<"p","r","i","n","t">>, <<"i","n","p","u","t">>, <<"e","c","h","o">>, <<"p","r","o","m","p","t">>}

IsTranslationCallByNameOnly(n) ==
    n.func.t = "Name" /\ n.func.id = <<"_">>

\* lines 72-80: a call of _ or a method call chained on a call of _
IsTranslationCall(n) ==
    \/ n.func.t = "Name" /\ n.func.id = <<"_">>
    \/ /\ n.func.t = "Attribute"
       /\ n.func.value.t = "Call"
       /\ n.func.value.func.t = "Name"
       /\ n.func.value.func.id = <<"_">>

\* lines 91-95
FuncName(n) ==
    IF n.func.t = "Name" THEN n.func.id
    ELSE IF n.func.t = "Attribute" THEN n.func.attr
    ELSE <<>>

\* self.source_lines[lineno - 1]
OriginalLine(text, lineno) == SplitLines(text)[lineno]

\* lines 99-112: one argument of a call of a user-facing function
ScanArg(text, arg, off, st) ==
    IF ~(arg.t = "Constant") THEN st
    ELSE LET location_key == LocationKey(text, off)
             original_line == OriginalLine(text, location_key[1])
         IN  IF location_key \in st.translated_locations THEN st
             ELSE IF IsUserFacingString(arg.value, original_line)
             THEN [strings_to_convert |->
                       Append(st.strings_to_convert,
                              [type |-> "Constant", location |-> location_key,
                               original_line |-> Strip(original_line), value |-> arg.value]),
                   translated_locations |-> st.translated_locations \cup {location_key}]
             ELSE st

RECURSIVE ScanArgs(_, _, _)
ScanArgs(text, args, st) ==
    IF args = <<>> THEN st
    ELSE ScanArgs(text, Tail(args), ScanArg(text, Head(args).node, Head(args).off, st))

\* lines 129-142: the placeholder of one embedded expression
Placeholder(value) ==
    <<"{">>
    \o (IF value.conversion # -1 THEN <<"!", Chr(value.conversion)>> ELSE <<>>)
    \o (IF value.format_spec.t # "None" THEN <<":">> \o Unparse(value.format_spec) ELSE <<>>)
    \o <<"}">>

\* lines 123-150: content_parts
ContentParts(values) ==
    [i \in 1..Len(values) |->
        IF values[i].t = "Constant" THEN values[i].value
        ELSE IF values[i].t = "FormattedValue" THEN Placeholder(values[i])
        ELSE Unparse(values[i])]

RECURSIVE VariablesRightToLeft(_)
VariablesRightToLeft(values) ==
    IF values = <<>> THEN <<>>
    ELSE VariablesRightToLeft(Tail(values))
         \o (IF Head(values).t = "FormattedValue" THEN <<Unparse(Head(values).value)>> ELSE <<>>)

RECURSIVE Variables(_)
\* lines 123-146: variables
Variables(values) ==
    IF values = <<>> THEN <<>>
    ELSE (IF Head(values).t = "FormattedValue" THEN <<Unparse(Head(values).value)>> ELSE <<>>)
         \o Variables(Tail(values))

RECURSIVE Visit(_, _, _, _)
RECURSIVE VisitEach(_, _, _)

\* a visit_JoinedStr that goes on into the parts of the string it has handled
VisitJoinedStrAndParts(text, n, off, st) ==
    LET location_key == LocationKey(text, off)
        template == Concat(ContentParts(n.values))
        original_line == OriginalLine(text, location_key[1])
    IN  IF location_key \in st.translated_locations THEN st
        ELSE VisitEach(text, Children(n, off),
                       IF IsUserFacingString(template, original_line)
                       THEN [st EXCEPT !.strings_to_convert =
                                 Append(@, [type |-> "JoinedStr", location |-> location_key,
                                            template |-> template, variables |-> Variables(n.values),
                                            original_line |-> Strip(original_line)])]
                       ELSE st)

\* visit_JoinedStr
VisitJoinedStr(text, n, off, st) ==
    LET location_key == LocationKey(text, off)
        template == Concat(ContentParts(n.values))
        original_line == OriginalLine(text, location_key[1])
    IN  IF location_key \in st.translated_locations THEN st
        ELSE IF IsUserFacingString(template, original_line)
        THEN [st EXCEPT !.strings_to_convert =
                  Append(@, [type |-> "JoinedStr", location |-> location_key,
                             template |-> template, variables |-> Variables(n.values),
                             original_line |-> Strip(original_line)])]
        ELSE st

\* NodeVisitor.generic_visit
GenericVisit(text, n, off, st) == VisitEach(text, Children(n, off), st)

\* visit_Call
VisitCall(text, n, off, st) ==
    IF IsTranslationCall(n)
    THEN [st EXCEPT !.translated_locations = @ \cup {LocationKey(text, off)}]
    ELSE GenericVisit(text, n, off,
                      IF FuncName(n) \in user_facing_funcs
                      THEN ScanArgs(text, Tail(Children(n, off)), st)
                      ELSE st)

\* NodeVisitor.visit
Visit(text, n, off, st) ==
    IF n.t = "Call" THEN VisitCall(text, n, off, st)
    ELSE IF n.t = "JoinedStr" THEN VisitJoinedStr(text, n, off, st)
    ELSE GenericVisit(text, n, off, st)

VisitEach(text, children, st) ==
    IF children = <<>> THEN st
    ELSE VisitEach(text, Tail(children), Visit(text, Head(children).node, Head(children).off, st))

\* analyzer = FStringAnalyzer(source_code); analyzer.visit(tree); analyzer.strings_to_convert
Analyze(body) ==
    VisitEach(ModuleText(body), ModuleChildren(body),
              [strings_to_convert |-> <<>>, translated_locations |-> {}]).strings_to_convert

(***************************************************************************)
(* FStringTransformer: the replacement of every node that is a target.     *)
(***************************************************************************)
\* the expressions the model's source files embed in their f-strings
EmbeddedExprs ==
    {Name(<<"n","a","m","e">>), Name(<<"x">>), Name(<<"b">>),
     BinOp(Name(<<"x">>), <<"+">>, Name(<<"n">>), FALSE),
     Call(Name(<<"l","e","n">>), <<Name(<<"x">>)>>),
     Call(Name(<<"l","e","n">>), <<FStr(<<SQ>>, <<FValue(Name(<<"x">>), -1, NoSpec), Seg(<<" ","i","t","e","m","s">>)>>)>>)}

\* ast.parse(var_expr, mode='eval').body: the expression whose unparsed text is var_expr
ParseExpr(var_expr) == CHOOSE e \in EmbeddedExprs : Unparse(e) = var_expr

\* self.strings_to_convert = {s['location']: s for s in strings_to_convert}: has key
IsTarget(strings_to_convert, location_key) ==
    \E i \in 1..Len(strings_to_convert) : strings_to_convert[i].location = location_key

\* self.strings_to_convert[location_key]: the last entry recorded for the key
TargetInfo(strings_to_convert, location_key) ==
    strings_to_convert[CHOOSE i \in 1..Len(strings_to_convert) :
                          /\ strings_to_convert[i].location = location_key
                          /\ \A j \in (i + 1)..Len(strings_to_convert) :
                                strings_to_convert[j].location # location_key]

\* lines 296-300 and 319-323: _(<text>)
TranslationCall(value) == Call(Name(<<"_">>), <<Str(Repr(value))>>)

\* lines 292-311: the node that replaces an f-string
NewJoinedStrNode(target_info) ==
    IF target_info.variables = <<>> THEN TranslationCall(target_info.template)
    ELSE Call(Attribute(TranslationCall(target_info.template), <<"f","o","r","m","a","t">>),
              [i \in 1..Len(target_info.variables) |-> ParseExpr(target_info.variables[i])])

\* lines 286-290 and 314-317: the node is one of the strings to convert
IsTargetNode(text, n, off, strings_to_convert) ==
    /\ n.t \in {"JoinedStr", "Constant"}
    /\ ~IsSeg(n) /\ ~IsSpec(n)
    /\ IsTarget(strings_to_convert, LocationKey(text, off))
    /\ TargetInfo(strings_to_convert, LocationKey(text, off)).type = n.t

\* new_node
NewNode(text, n, off, strings_to_convert) ==
    IF n.t = "JoinedStr"
    THEN NewJoinedStrNode(TargetInfo(strings_to_convert, LocationKey(text, off)))
    ELSE TranslationCall(n.value)

\* target_info.get(key, default)
Get(info, key, default) == IF key \in DOMAIN info THEN info[key] ELSE default

\* lines 325-340: the entry appended to conversions_made
Conversion(text, n, off, strings_to_convert) ==
    LET target_info == TargetInfo(strings_to_convert, LocationKey(text, off))
    IN  [start_line |-> LineNo(text, off),
         start_col |-> ColOffset(text, off),
         end_line |-> LineNo(text, off + Len(Src(n))),
         end_col |-> ColOffset(text, off + Len(Src(n))),
         original_text |-> Get(target_info, "original_line", <<>>),
         replacement_text |-> Unparse(NewNode(text, n, off, strings_to_convert)),
         template |-> Get(target_info, "template", <<>>),
         variables |-> Get(target_info, "variables", <<>>)]

RECURSIVE TransformVisit(_, _, _, _)
RECURSIVE TransformEach(_, _, _)
\* FStringTransformer.generic_visit: the children first, then the node itself
TransformVisit(text, n, off, strings_to_convert) ==
    TransformEach(text, Children(n, off), strings_to_convert)
    \o (IF IsTargetNode(text, n, off, strings_to_convert)
        THEN <<Conversion(text, n, off, strings_to_convert)>>
        ELSE <<>>)

TransformEach(text, children, strings_to_convert) ==
    IF children = <<>> THEN <<>>
    ELSE TransformVisit(text, Head(children).node, Head(children).off, strings_to_convert)
         \o TransformEach(text, Tail(children), strings_to_convert)

\* transformer = FStringTransformer(fstrings); transformer.visit(tree); conversions_made
ConversionsMade(body, strings_to_convert) ==
    TransformEach(ModuleText(body), ModuleChildren(body), strings_to_convert)

(***************************************************************************)
(* What the parser returns for the file convert_file wrote: the tree with  *)
(* every target replaced by the node whose unparsed text went to the file. *)
(***************************************************************************)
RECURSIVE Reparse(_, _, _, _)
Reparse(text, n, off, strings_to_convert) ==
    LET kids == Children(n, off)
        new(i) == Reparse(text, kids[i].node, kids[i].off, strings_to_convert)
    IN  IF IsTargetNode(text, n, off, strings_to_convert)
        THEN NewNode(text, n, off, strings_to_convert)
        ELSE CASE n.t = "Call" ->
                    [n EXCEPT !.func = new(1), !.args = [i \in 1..Len(n.args) |-> new(i + 1)]]
               [] n.t = "Attribute" -> [n EXCEPT !.value = new(1)]
               [] n.t = "BinOp" -> [n EXCEPT !.left = new(1), !.right = new(2)]
               [] n.t = "Tuple" -> [n EXCEPT !.elts = [i \in 1..Len(n.elts) |-> new(i)]]
               [] n.t = "Expr" -> [n EXCEPT !.value = new(1)]
               [] n.t = "Assign" -> [n EXCEPT !.value = new(2)]
               [] OTHER -> n

\* ast.parse(source_code) on the bytes convert_file wrote for the module `body`
ReparseModule(body, strings_to_convert) ==
    LET kids == ModuleChildren(body)
    IN  [i \in 1..Len(body) |-> Reparse(ModuleText(body), kids[i].node, kids[i].off, strings_to_convert)]


(***************************************************************************)
(* Regular expressions as the re module matches them.  A pattern is a      *)
(* record; Ends lists the offsets at which a match that starts at offset i *)
(* can end, in the order in which the backtracking matcher tries them, so  *)
(* the first element is the match re reports.  The patterns of the program *)
(* have no back-references, so what follows an offset does not depend on   *)
(* how it was reached and an offset is kept once.  The program repeats     *)
(* character classes only, so RStar and RLazy take a class.                *)
(***************************************************************************)
RSet(S) == [k |-> "set", s |-> S]
RNot(S) == [k |-> "not", s |-> S]
RCat(rs) == [k |-> "cat", rs |-> rs]
RAlt(rs) == [k |-> "alt", rs |-> rs]
RStar(r) == [k |-> "star", r |-> r]
RLazy(r) == [k |-> "lazy", r |-> r]
RPlus(r) == RCat(<<r, RStar(r)>>)
RLit(text) == [k |-> "lit", text |-> text]
RWordBoundary == [k |-> "b"]
RStart == [k |-> "start"]

\* \s for the characters of the model, \w, and . (anything but a line feed)
RSpace == RSet({" ", "\t", "\n", "\r", "\f"})
WordChars == {UpperCase[i] : i \in 1..26} \cup {LowerCase[i] : i \in 1..26} \cup Digits \cup {"_"}
RWord == RSet(WordChars)
RAny == RNot({"\n"})

IsWordAt(s, k) == k >= 1 /\ k <= Len(s) /\ s[k] \in WordChars

\* the elements of seq at the indices S, in their order
Keep(seq, S) ==
    LET kept == Ascending(Len(seq), S)
    IN  [n \in 1..Len(kept) |-> seq[kept[n]]]

\* the elements of seq, each at its first place only
Dedup(seq) ==
    LET first == Ascending(Len(seq), {j \in 1..Len(seq) : \A k \in 1..(j - 1) : seq[k] # seq[j]})
    IN  [n \in 1..Len(first) |-> seq[first[n]]]

\* the character c is in the class r
Accepts(r, c) == IF r.k = "set" THEN c \in r.s ELSE c \notin r.s

\* the number of characters of the class r from offset i on
Run(r, s, i) ==
    CHOOSE m \in 0..(Len(s) - i) :
        /\ \A j \in 1..m : Accepts(r, s[i + j])
        /\ i + m = Len(s) \/ ~Accepts(r, s[i + m + 1])

RECURSIVE Ends(_, _, _)
RECURSIVE EndsAll(_, _, _)
RECURSIVE CatEnds(_, _, _)
\* the ends of the matches of r that start at one of the offsets ps
EndsAll(r, s, ps) == Dedup(Concat([j \in 1..Len(ps) |-> Ends(r, s, ps[j])]))

\* the ends of the matches of the patterns rs, one after another, from the offsets ps
CatEnds(rs, s, ps) ==
    IF rs = <<>> \/ ps = <<>> THEN ps ELSE CatEnds(Tail(rs), s, EndsAll(Head(rs), s, ps))

Ends(r, s, i) ==
    CASE r.k = "set" -> IF i < Len(s) /\ s[i + 1] \in r.s THEN <<i + 1>> ELSE <<>>
      [] r.k = "not" -> IF i < Len(s) /\ s[i + 1] \notin r.s THEN <<i + 1>> ELSE <<>>
      [] r.k = "b" -> IF IsWordAt(s, i) # IsWordAt(s, i + 1) THEN <<i>> ELSE <<>>
      [] r.k = "start" -> IF i = 0 THEN <<i>> ELSE <<>>
      [] r.k = "cat" -> CatEnds(r.rs, s, <<i>>)
      [] r.k = "alt" -> Dedup(Concat([j \in 1..Len(r.rs) |-> Ends(r.rs[j], s, i)]))
      [] r.k = "lit" ->
            IF i + Len(r.text) <= Len(s) /\ SubSeq(s, i + 1, i + Len(r.text)) = r.text
            THEN <<i + Len(r.text)>> ELSE <<>>
      [] r.k = "star" -> [n \in 1..(Run(r.r, s, i) + 1) |-> i + Run(r.r, s, i) + 1 - n]
      [] r.k = "lazy" -> [n \in 1..(Run(r.r, s, i) + 1) |-> i + n - 1]

\* re.search(r, s) finds a match (text is s, evaluated once)
Search(r, s) == \E text \in {s} : \E i \in 0..Len(text) : Ends(r, text, i) # <<>>

RECURSIVE SubFrom(_, _, _, _)
\* re.sub(r, repl, s) from offset i on; no pattern of the program matches the empty string
SubFrom(r, repl, s, i) ==
    IF i >= Len(s) THEN <<>>
    ELSE LET ends == Ends(r, s, i)
         IN  IF ends # <<>> /\ ends[1] > i
             THEN repl \o SubFrom(r, repl, s, ends[1])
             ELSE <<s[i + 1]>> \o SubFrom(r, repl, s, i + 1)

Sub(r, repl, s) == CHOOSE out \in {SubFrom(r, repl, text, 0) : text \in {s}} : TRUE

(***************************************************************************)
(* Text files as the fixer reads and writes them.                          *)
(***************************************************************************)
\* the line boundaries of str.splitlines() among the characters of the model
LineBoundaries == {"\n", "\r", "\f", "U2028"}

\* the length of the line terminator at text[k], 0 if there is none
TerminatorAt(text, k, boundaries) ==
    IF k > Len(text) \/ text[k] \notin boundaries THEN 0
    ELSE IF text[k] = "\r" /\ k < Len(text) /\ text[k + 1] = "\n" /\ "\n" \in boundaries THEN 2
    ELSE 1

RECURSIVE SplitAt(_, _, _)
\* the lines of text, cut after every terminator; keepends says whether a line keeps its own
SplitAt(text, boundaries, keepends) ==
    IF text = <<>> THEN <<>>
    ELSE LET n == CHOOSE k \in 1..(Len(text) + 1) :
                     /\ \A j \in 1..(k - 1) : text[j] \notin boundaries
                     /\ k = Len(text) + 1 \/ text[k] \in boundaries
             t == TerminatorAt(text, n, boundaries)
         IN  <<SubSeq(text, 1, IF keepends THEN n - 1 + t ELSE n - 1)>>
             \o SplitAt(SubSeq(text, n + t, Len(text)), boundaries, keepends)

\* content.splitlines(keepends)
StrSplitLines(content, keepends) == SplitAt(content, LineBoundaries, keepends)

\* what open(file_path, 'r').read() returns for the characters on disk: universal newlines
ReadText(raw) ==
    Concat([k \in 1..Len(raw) |->
               IF raw[k] = "\r" THEN <<"\n">>
               ELSE IF raw[k] = "\n" /\ k > 1 /\ raw[k - 1] = "\r" THEN <<>>
               ELSE <<raw[k]>>])

\* f.readlines()
ReadLines(raw) == SplitAt(ReadText(raw), {"\n"}, TRUE)

\* f.writelines(lines)
WriteLines(lines) == Concat(lines)

RECURSIVE CountSub(_, _)
\* line.count(needle)
CountSub(line, needle) ==
    IF Len(line) < Len(needle) THEN 0
    ELSE IF SubSeq(line, 1, Len(needle)) = needle
    THEN 1 + CountSub(SubSeq(line, Len(needle) + 1, Len(line)), needle)
    ELSE CountSub(Tail(line), needle)

\* str.strip() for the characters of the model
StripSpace(text) == StripChars(text, {" ", "\t", "\n", "\r", "\f", "U2028"})

TripleDQ == <<"\"","\"","\"">>
TripleSQ == <<"'","'","'">>

(***************************************************************************)
(* underscore_fixer.py                                                     *)
(***************************************************************************)
EXCLUDED_DIRS ==
    {<<".","g","i","t">>, <<"_","_","p","y","c","a","c","h","e","_","_">>, <<"v","e","n","v">>, <<".","v","e","n","v">>, <<"n","o","d","e","_","m","o","d","u","l","e","s">>, <<".","t","o","x">>, <<"b","u","i","l","d">>,
     <<"d","i","s","t">>, <<".","e","g","g","s">>, <<"d","e","v","_","t","o","o","l","s">>, <<"_","v","e","n","d","o","r">>}

PROTECTED_FILES == {<<"i","1","8","n",".","p","y">>, <<"_","_","m","a","i","n","_","_",".","p","y">>}

PROTECTED_PATTERNS == <<RLit(<<"/","i","1","8","n",".","p","y">>), RLit(<<"/","_","_","m","a","i","n","_","_",".","p","y">>)>>

\* the components of a path
PathParts(file_path) == SplitAt(file_path, {"/"}, FALSE)

\* os.path.basename(file_path)
Basename(file_path) ==
    IF file_path = <<>> \/ file_path[Len(file_path)] = "/" THEN <<>>
    ELSE PathParts(file_path)[Len(PathParts(file_path))]

is_protected_file(file_path) ==
    \/ Basename(file_path) \in PROTECTED_FILES
    \/ \E p \in 1..Len(PROTECTED_PATTERNS) : Search(PROTECTED_PATTERNS[p], file_path)
    \/ Contains(file_path, <<"u","n","d","e","r","s","c","o","r","e","_","f","i","x","e","r",".","p","y">>)

\* .*\b_\b
ThenUnderscore == <<RStar(RAny), RWordBoundary, RSet({"_"}), RWordBoundary>>

\* the patterns of file_has_i18n_import
ImportPatterns ==
    <<RCat(<<RLit(<<"f","r","o","m">>), RPlus(RSpace), RLit(<<".","i","1","8","n">>), RPlus(RSpace), RLit(<<"i","m","p","o","r","t">>),
             RPlus(RSpace)>> \o ThenUnderscore),
      RCat(<<RLit(<<"f","r","o","m">>), RPlus(RSpace), RPlus(RWord), RLit(<<".","i","1","8","n">>), RPlus(RSpace),
             RLit(<<"i","m","p","o","r","t">>), RPlus(RSpace)>> \o ThenUnderscore),
      RCat(<<RLit(<<"f","r","o","m">>), RPlus(RSpace), RLit(<<"o","m","n","i","p","k","g",".","i","1","8","n">>), RPlus(RSpace),
             RLit(<<"i","m","p","o","r","t">>), RPlus(RSpace)>> \o ThenUnderscore),
      RCat(<<RLit(<<"i","m","p","o","r","t">>), RPlus(RSpace), RLit(<<"g","e","t","t","e","x","t">>)>>),
      RCat(<<RSet({"_"}), RStar(RSpace), RSet({"="}), RStar(RSpace), RLit(<<"g","e","t","t","e","x","t",".">>)>>),
      RCat(<<RSet({"_"}), RStar(RSpace), RSet({"="}), RStar(RSpace), RLit(<<"T","r","a","n","s","l","a","t","o","r","(">>)>>)>>

\* a test that wants the import at the start of a line
ImportStartsLine(content) ==
    \E p \in 1..Len(ImportPatterns) :
        \E text \in {StrSplitLines(content, FALSE)} :
            \E k \in 1..Len(text) : Ends(ImportPatterns[p], text[k], 0) # <<>>

file_has_i18n_import(content) ==
    \E p \in 1..Len(ImportPatterns) : Search(ImportPatterns[p], content)

\* \b_\s*\(['"]
TranslationCallPattern ==
    RCat(<<RWordBoundary, RSet({"_"}), RStar(RSpace), RSet({"("}), RSet({SQ, DQ})>>)

is_translation_call(line) == Search(TranslationCallPattern, line)

\* the numbers of the lines that hold a translation call
extract_translation_calls(content) ==
    LET lines == StrSplitLines(content, FALSE)
    IN  Ascending(Len(lines), {i \in 1..Len(lines) : is_translation_call(lines[i])})

\* the line with its string literals emptied, lines 125-128
TempLine(line) ==
    LET a == Sub(RCat(<<RSet({DQ}), RStar(RNot({DQ})), RSet({DQ})>>), <<DQ, DQ>>, line)
        b == Sub(RCat(<<RSet({SQ}), RStar(RNot({SQ})), RSet({SQ})>>), <<SQ, SQ>>, a)
        c == Sub(RCat(<<RSet({"f"}), RSet({DQ}), RStar(RNot({DQ})), RSet({DQ})>>), <<"f", DQ, DQ>>, b)
    IN  Sub(RCat(<<RSet({"f"}), RSet({SQ}), RStar(RNot({SQ})), RSet({SQ})>>), <<"f", SQ, SQ>>, c)

\* [\[\{]\s*.*\s+for\s+.*\b_\b
ComprehensionPattern ==
    RCat(<<RSet({"[", "{"}), RStar(RSpace), RStar(RAny), RPlus(RSpace), RLit(<<"f","o","r">>),
           RPlus(RSpace)>> \o ThenUnderscore)

\* (^|\s)_\s*=\s+
AssignmentPattern ==
    RCat(<<RAlt(<<RStart, RSpace>>), RSet({"_"}), RStar(RSpace), RSet({"="}), RPlus(RSpace)>>)

\* ^\s*for\s+
ForPattern == RCat(<<RStart, RStar(RSpace), RLit(<<"f","o","r">>), RPlus(RSpace)>>)

\* \s+in\s+
InPattern == RCat(<<RPlus(RSpace), RLit(<<"i","n">>), RPlus(RSpace)>>)

\* for_match.group(1) of ^\s*for\s+(.*?)\s+in\s+ as a sequence of at most one text
ForGroup(line) ==
    LET starts == Ends(ForPattern, line, 0)
        spans == Concat([j \in 1..Len(starts) |->
                     LET stops == Ends(RLazy(RAny), line, starts[j])
                     IN  [n \in 1..Len(stops) |-> <<starts[j], stops[n]>>]])
        found == {n \in 1..Len(spans) : Ends(InPattern, line, spans[n][2]) # <<>>}
        first == spans[CHOOSE n \in found : \A m \in found : n <= m]
    IN  IF found = {} THEN <<>> ELSE <<SubSeq(line, first[1] + 1, first[2])>>

ForVarList(line) == CHOOSE group \in {ForGroup(text) : text \in {line}} : TRUE

\* ,\s*_\s*[,=]
TuplePattern ==
    RCat(<<RSet({","}), RStar(RSpace), RSet({"_"}), RStar(RSpace), RSet({",", "="})>>)

\* \bdef\s+\w+\([^)]*\b_\b
ParamPattern ==
    RCat(<<RWordBoundary, RLit(<<"d","e","f">>), RPlus(RSpace), RPlus(RWord), RSet({"("}),
           RStar(RNot({")"})), RWordBoundary, RSet({"_"}), RWordBoundary>>)

\* the kind of lazy placeholder on a line, lines 120-154; "none" if the line is passed over
PlaceholderKind(line) ==
    IF StartsWith(StripSpace(line), <<"#">>) THEN "none"
    ELSE IF ~HasChar(TempLine(line), "_") THEN "none"
    ELSE IF Search(ComprehensionPattern, line) THEN "none"
    ELSE IF Search(AssignmentPattern, line) THEN "assignment"
    ELSE IF /\ Search(ForPattern, line)
            /\ \E var_list \in {ForVarList(line)} :
                  /\ var_list # <<>>
                  /\ Search(RCat(<<RWordBoundary, RSet({"_"}), RWordBoundary>>), var_list[1])
    THEN "for_loop"
    ELSE IF Search(TuplePattern, line) THEN "tuple_unpack"
    ELSE IF Search(ParamPattern, line) THEN "function_param"
    ELSE "none"

\* the delimiter a line is judged by, lines 107-108 and 210
DelimiterOf(line) == IF Contains(line, TripleDQ) THEN TripleDQ ELSE TripleSQ

HasDelimiter(line) == Contains(line, TripleDQ) \/ Contains(line, TripleSQ)

\* in_multiline_string and string_delimiter after a line, lines 106-117
StringState(line, st) ==
    IF ~HasDelimiter(line) \/ CountSub(line, DelimiterOf(line)) % 2 = 0 THEN st
    ELSE IF ~st.inside THEN [inside |-> TRUE, delimiter |-> DelimiterOf(line)]
    ELSE IF DelimiterOf(line) = st.delimiter THEN [inside |-> FALSE, delimiter |-> <<>>]
    ELSE st

OutsideString == [inside |-> FALSE, delimiter |-> <<>>]

RECURSIVE FindFrom(_, _, _, _)
\* the loop of find_variable_uses from line i on, lines 102-154
FindFrom(lines, translation_lines, i, st) ==
    IF i > Len(lines) THEN <<>>
    ELSE IF \E k \in 1..Len(translation_lines) : translation_lines[k] = i
    THEN FindFrom(lines, translation_lines, i + 1, st)
    ELSE LET now == StringState(lines[i], st)
             kind == IF now.inside THEN "none" ELSE PlaceholderKind(lines[i])
         IN  (IF kind = "none" THEN <<>> ELSE <<[line_num |-> i, line |-> lines[i], kind |-> kind]>>)
             \o FindFrom(lines, translation_lines, i + 1, now)

\* find_variable_uses(file_path, '_') for a file whose characters are raw
find_variable_uses(file_path, raw) ==
    IF is_protected_file(file_path) THEN <<>>
    ELSE LET content == ReadText(raw)
         IN  FindFrom(StrSplitLines(content, TRUE), extract_translation_calls(content), 1, OutsideString)

\* \bold_var\b replaced by new_var_name
Renamed(line) ==
    Sub(RCat(<<RWordBoundary, RSet({"_"}), RWordBoundary>>), <<"u","n","u","s","e","d">>, line)

\* apply_fix(file_path, line_num, '_', 'unused'): the characters of the file afterwards
apply_fix(raw, line_num) ==
    LET lines == ReadLines(raw)
    IN  IF line_num > Len(lines) THEN raw
        ELSE IF Renamed(lines[line_num]) = lines[line_num] THEN raw
        ELSE WriteLines([lines EXCEPT ![line_num] = Renamed(lines[line_num])])

\* is_ignored(file_path, line_num): the keys of the ignore list are pairs of path and line
is_ignored(ignore_list, file_path, line_num) == <<file_path, line_num>> \in ignore_list

RECURSIVE FixEach(_, _, _, _)
\* the inner loop of auto_fix_all over the findings of a file, lines 438-442
FixEach(raw, file_path, findings, ignore_list) ==
    IF findings = <<>> THEN raw
    ELSE FixEach(IF is_ignored(ignore_list, file_path, Head(findings).line_num) THEN raw
                 ELSE apply_fix(raw, Head(findings).line_num),
                 file_path, Tail(findings), ignore_list)

\* a directory entry that os.walk hands to the fixer: a .py file outside the excluded directories
Walked(file_path) ==
    /\ Len(file_path) >= 3 /\ SubSeq(file_path, Len(file_path) - 2, Len(file_path)) = <<".","p","y">>
    /\ \A k \in 1..(Len(PathParts(file_path)) - 1) : PathParts(file_path)[k] \notin EXCLUDED_DIRS

\* auto_fix_all('_', 'unused') on one file: the characters of the file afterwards
FixFile(file_path, raw, ignore_list) ==
    IF ~Walked(file_path) \/ is_protected_file(file_path) THEN raw
    ELSE FixEach(raw, file_path, find_variable_uses(file_path, raw), ignore_list)

\* start_scan, lines 190-194
IsHeaderLine(line) == StartsWith(line, <<"#","!">>) \/ Contains(line, <<"c","o","d","i","n","g",":">>)

StartScan(lines) ==
    IF Len(lines) > 0 /\ IsHeaderLine(lines[1])
    THEN IF Len(lines) > 1 /\ IsHeaderLine(lines[2]) THEN 2 ELSE 1
    ELSE 0

RECURSIVE ScanFrom(_, _, _)
\* the loop of inject_i18n_import from index i on (indices count from 0), lines 202-240
ScanFrom(lines, i, st) ==
    IF i >= Len(lines) THEN st
    ELSE LET line == lines[i + 1]
             odd == HasDelimiter(line) /\ CountSub(line, DelimiterOf(line)) % 2 # 0
             opens == HasDelimiter(line) /\ ~st.inside /\ odd
             closes == HasDelimiter(line) /\ st.inside /\ odd /\ DelimiterOf(line) = st.delimiter
             marks == /\ HasDelimiter(line)
                      /\ st.last_top_level_import_index = -1
                      /\ \/ ~st.inside /\ ~odd
                         \/ closes
             inside == IF opens THEN TRUE ELSE IF closes THEN FALSE ELSE st.inside
             import == ~inside /\ (StartsWith(line, <<"i","m","p","o","r","t"," ">>) \/ StartsWith(line, <<"f","r","o","m"," ">>))
         IN  ScanFrom(lines, i + 1,
                      [inside |-> inside,
                       delimiter |-> IF opens THEN DelimiterOf(line) ELSE st.delimiter,
                       end_of_docstring_index |-> IF marks THEN i ELSE st.end_of_docstring_index,
                       last_top_level_import_index |->
                           IF import THEN i ELSE st.last_top_level_import_index])

\* insert_idx, lines 243-253
InsertIdx(lines) ==
    LET st == ScanFrom(lines, StartScan(lines),
                       [inside |-> FALSE, delimiter |-> <<>>, end_of_docstring_index |-> -1,
                        last_top_level_import_index |-> -1])
    IN  IF st.last_top_level_import_index # -1 THEN st.last_top_level_import_index + 1
        ELSE IF st.end_of_docstring_index # -1 THEN st.end_of_docstring_index + 1
        ELSE StartScan(lines)

import_line == <<"f","r","o","m"," ","o","m","n","i","p","k","g",".","i","1","8","n"," ","i","m","p","o","r","t"," ","_","\n">>

\* lines.insert(insert_idx, import_line)
InsertImport(lines) ==
    LET insert_idx == InsertIdx(lines)
    IN  SubSeq(lines, 1, insert_idx) \o <<import_line>> \o SubSeq(lines, insert_idx + 1, Len(lines))

\* inject_i18n_import(file_path): the characters of the file afterwards
inject_i18n_import(raw) == WriteLines(InsertImport(ReadLines(raw)))

\* the test of find_files_needing_i18n_import for one file, lines 164-171
NeedsImport(file_path, raw) ==
    /\ Walked(file_path)
    /\ ~is_protected_file(file_path)
    /\ extract_translation_calls(ReadText(raw)) # <<>>
    /\ ~file_has_i18n_import(ReadText(raw))
(***************************************************************************)
(* The source files of the model: every sequence of at most MaxStmts of    *)
(* the statements below.                                                   *)
(***************************************************************************)
NoTrail == <<>>

\* print(f"Hello {name}!")
Greeting ==
    ExprStmt(Call(Name(<<"p","r","i","n","t">>),
                  <<FStr(<<DQ>>, <<Seg(<<"H","e","l","l","o"," ">>), FValue(Name(<<"n","a","m","e">>), -1, NoSpec), Seg(<<"!">>)>>)>>),
             NoTrail)

\* x = _("Save changes?")
Translated == Assign(Name(<<"x">>), Call(Name(<<"_">>), <<Str(<<"\"","S","a","v","e"," ","c","h","a","n","g","e","s","?","\"">>)>>), NoTrail)

Statements ==
    { Greeting,
      \* print("====")  # <U+2705>
      ExprStmt(Call(Name(<<"p","r","i","n","t">>), <<Str(<<"\"","=","=","=","=","\"">>)>>), <<" "," ","#"," ","U2705">>),
      Translated,
      \* f"Error: no {name}", f"bye {b}"
      ExprStmt(TupleOf(<<FStr(<<DQ>>, <<Seg(<<"E","r","r","o","r",":"," ","n","o"," ">>), FValue(Name(<<"n","a","m","e">>), -1, NoSpec)>>),
                         FStr(<<DQ>>, <<Seg(<<"b","y","e"," ">>), FValue(Name(<<"b">>), -1, NoSpec)>>)>>),
               NoTrail),
      \* print("<U+2705>", f"Done {x+n} ok {b!r}")
      ExprStmt(Call(Name(<<"p","r","i","n","t">>),
                    <<Str(<<"\"","U2705","\"">>),
                      FStr(<<DQ>>, <<Seg(<<"D","o","n","e"," ">>),
                                     FValue(BinOp(Name(<<"x">>), <<"+">>, Name(<<"n">>), TRUE), -1, NoSpec),
                                     Seg(<<" ","o","k"," ">>),
                                     FValue(Name(<<"b">>), 114, NoSpec)>>)>>),
               NoTrail),
      \* print('It\'s "a" \\ b,\n c')
      ExprStmt(Call(Name(<<"p","r","i","n","t">>), <<Str(<<"'","I","t","\\","'","s"," ","\"","a","\""," ","\\","\\"," ","b",",","\\","n"," ","c","'">>)>>), NoTrail),
      \* print(f"""Hi
      \* all {x}""", f"bye {b}")
      ExprStmt(Call(Name(<<"p","r","i","n","t">>),
                    <<FStr(<<DQ, DQ, DQ>>, <<Seg(<<"H","i","\n","a","l","l"," ">>), FValue(Name(<<"x">>), -1, NoSpec)>>),
                      FStr(<<DQ>>, <<Seg(<<"b","y","e"," ">>), FValue(Name(<<"b">>), -1, NoSpec)>>)>>),
               NoTrail),
      \* print(_("Done {}").format(f"x {name} error found"), f"Now, go on")
      ExprStmt(Call(Name(<<"p","r","i","n","t">>),
                    <<Call(Attribute(Call(Name(<<"_">>), <<Str(<<"\"","D","o","n","e"," ","{","}","\"">>)>>), <<"f","o","r","m","a","t">>),
                           <<FStr(<<DQ>>, <<Seg(<<"x"," ">>), FValue(Name(<<"n","a","m","e">>), -1, NoSpec),
                                            Seg(<<" ","e","r","r","o","r"," ","f","o","u","n","d">>)>>)>>),
                      FStr(<<DQ>>, <<Seg(<<"N","o","w",","," ","g","o"," ","o","n">>)>>)>>),
               NoTrail) }

RECURSIVE SeqsUpTo(_, _)
\* the sequences of at most n elements of S
SeqsUpTo(S, n) ==
    IF n = 0 THEN {<<>>}
    ELSE LET shorter == SeqsUpTo(S, n - 1)
         IN  shorter \cup {Append(s, x) : s \in shorter, x \in S}

Programs == SeqsUpTo(Statements, MaxStmts) \ {<<>>}

FileIds == {1}

(***************************************************************************)
(* The state machine of a run of scan_and_convert.                         *)
(***************************************************************************)
ZeroStats ==
    [files_scanned |-> 0, files_with_fstrings |-> 0, files_modified |-> 0,
     fstrings_found |-> 0, fstrings_converted |-> 0, backups_created |-> 0]

NumFiles == Len(disk)

\* the patch loop before convert_file has run
PatchIdle ==
    [pc |-> "idle", file |-> 0, tree |-> <<>>, source_bytes |-> <<>>, conversions_made |-> <<>>,
     replacements |-> <<>>, line_start_indices |-> <<0>>, i |-> 0,
     st |-> PatchStart(<<>>), final_source_bytes |-> <<>>]

\* lines 481-496: convert_file has read the file, parsed it and run the transformer
PatchInit(file, tree, source_bytes, conversions_made) ==
    [PatchIdle EXCEPT !.pc = "start", !.file = file, !.tree = tree,
                      !.source_bytes = source_bytes, !.conversions_made = conversions_made]

\* lines 503-519: the sort, the line index, the loop's locals
PatchSorted(p) ==
    [p EXCEPT !.pc = "loop",
              !.replacements = SortReplacements(p.conversions_made),
              !.line_start_indices = LineStartIndices(p.source_bytes),
              !.i = 0,
              !.st = PatchStart(p.source_bytes)]

\* lines 521-547: the next iteration of the loop
PatchIter(p) ==
    [p EXCEPT !.i = @ + 1,
              !.st = PatchStep(p.source_bytes, p.line_start_indices, p.st, p.replacements[p.i + 1])]

\* lines 549-553
PatchDone(p) ==
    [p EXCEPT !.pc = "done", !.final_source_bytes = Reassemble(p.source_bytes, p.st)]

RECURSIVE PatchRest(_)
PatchRest(p) == IF p.i < Len(p.replacements) THEN PatchRest(PatchIter(p)) ELSE PatchDone(p)

\* lines 501-553 in one step
PatchAll(file, tree, source_bytes, conversions_made) ==
    PatchRest(PatchSorted(PatchInit(file, tree, source_bytes, conversions_made)))

\* a source file: the tree ast.parse returns for it, and its bytes
SourceFiles == {[tree |-> body, bytes |-> Encode(ModuleText(body))] : body \in Programs}

(***************************************************************************)
(* What can go wrong with a file.  The fault of a file is fixed when the   *)
(* directory is set up:                                                    *)
(*   unreadable  open() in analyze_file raises OSError                     *)
(*   not_utf8    f.read() in analyze_file raises UnicodeDecodeError        *)
(*   syntax      ast.parse raises SyntaxError                              *)
(*   too_deep    ast.parse raises RecursionError (an expression nested     *)
(*               deeper than the interpreter's limit)                      *)
(*   vanishes    analyze_file reads the file, open() in convert_file       *)
(*               raises OSError (removed or locked in between)             *)
(*   read_only   the file can be read but open(file_path, 'wb') raises     *)
(***************************************************************************)
AnalyzeFaults == {"unreadable", "not_utf8", "syntax"}

ConvertFaults == {"vanishes", "read_only"}

Faults == {"none", "too_deep"} \cup AnalyzeFaults \cup ConvertFaults

Parses(f) == fault[f] \in {"none"} \cup ConvertFaults

\* the messages of scan_and_convert for a file, lines 386-395
Outcomes == {"pending", "no_fstrings", "converted", "would_convert", "failed_or_skipped"}

NoRun ==
    [run |-> 0, dry_run |-> FALSE, before |-> <<>>, fstrings |-> <<>>, patch |-> PatchIdle,
     all_conversions |-> <<>>, stats |-> ZeroStats, outcome |-> <<>>]

\* no function is being called on its own
NoCall == [op |-> "none", args |-> <<>>, pc |-> "idle", result |-> "none"]

\* scan_and_convert, lines 366-368, and the early return of create_backups, lines 402-403
StartPc(dry, with_backup) == IF ~dry /\ with_backup THEN "backup" ELSE "analyze"

\* the path of file f of the directory, given its name
FilePath(f, name) == <<"p","k","g","/","m">> \o <<(<<"1", "2", "3", "4">>)[f], "/">> \o name

\* a directory of readable, well-formed files, converted without backups
Init ==
    /\ \E files \in [FileIds -> SourceFiles] :
          /\ ast = [f \in FileIds |-> files[f].tree]
          /\ disk = [f \in FileIds |-> files[f].bytes]
    /\ fault = [f \in FileIds |-> "none"]
    /\ before = disk
    /\ dry_run \in BOOLEAN
    /\ backup = FALSE
    /\ backups = {}
    /\ run = 1
    /\ cur = 1
    /\ pc = StartPc(dry_run, backup)
    /\ fstrings = [f \in FileIds |-> <<>>]
    /\ outcome = [f \in FileIds |-> "pending"]
    /\ stats = ZeroStats
    /\ all_conversions = <<>>
    /\ written = [r \in 1..MaxRuns |-> {}]
    /\ patch = PatchIdle
    /\ last_run = NoRun
    /\ call = NoCall
    /\ path = [f \in FileIds |-> FilePath(f, <<"a","p","p",".","p","y">>)]

\* the files of a directory in which things go wrong
ScanFiles ==
    {[tree |-> <<Greeting>>, bytes |-> Encode(ModuleText(<<Greeting>>)), fault |-> k] :
         k \in {"none", "unreadable", "vanishes", "read_only"}}
    \cup {[tree |-> <<Translated>>, bytes |-> Encode(ModuleText(<<Translated>>)), fault |-> "none"],
          \* the second byte of a three-byte character on its own
          [tree |-> <<>>, bytes |-> Tail(Encode(<<"U2705">>)), fault |-> "not_utf8"],
          [tree |-> <<>>, bytes |-> Encode(<<"p","r","i","n","t","(">>), fault |-> "syntax"],
          \* x = a.b.b. ... .b, longer than the parser's recursion limit
          [tree |-> <<>>, bytes |-> Encode(<<"x"," ","="," ","a",".","b",".","b">>), fault |-> "too_deep"]}

\* a directory of MaxFiles files, some of them faulty, with or without backups
InitScan ==
    /\ \E files \in [1..MaxFiles -> ScanFiles] :
          /\ ast = [f \in 1..MaxFiles |-> files[f].tree]
          /\ disk = [f \in 1..MaxFiles |-> files[f].bytes]
          /\ fault = [f \in 1..MaxFiles |-> files[f].fault]
    /\ before = disk
    /\ dry_run \in BOOLEAN
    /\ backup \in BOOLEAN
    /\ backups = {}
    /\ run = 1
    /\ cur = 1
    /\ pc = StartPc(dry_run, backup)
    /\ fstrings = [f \in 1..MaxFiles |-> <<>>]
    /\ outcome = [f \in 1..MaxFiles |-> "pending"]
    /\ stats = ZeroStats
    /\ all_conversions = <<>>
    /\ written = [r \in 1..MaxRuns |-> {}]
    /\ patch = PatchIdle
    /\ last_run = NoRun
    /\ call = NoCall
    /\ path = [f \in 1..MaxFiles |-> FilePath(f, <<"a","p","p",".","p","y">>)]

\* create_backups, lines 405-437: each copy is tried on its own; a copy fails when the file
\* is not under project_root (relative_to raises) or cannot be copied, and the failure is
\* only reported
CreateBackups ==
    /\ pc = "backup"
    /\ \E copied \in SUBSET {f \in DOMAIN disk : fault[f] # "unreadable"} :
          /\ backups' = copied
          /\ stats' = [stats EXCEPT !.backups_created = @ + Cardinality(copied)]
    /\ pc' = "analyze"
    /\ UNCHANGED <<disk, ast, dry_run, run, cur, fstrings, all_conversions, written, before, patch,
                   backup, fault, outcome, last_run, call, path>>

\* analyze_file returns [] at line 446 or 452: the file cannot be read, decoded or parsed
AnalyzeFails ==
    /\ pc = "analyze" /\ cur <= NumFiles
    /\ fault[cur] \in AnalyzeFaults
    /\ fstrings' = [fstrings EXCEPT ![cur] = <<>>]
    /\ outcome' = [outcome EXCEPT ![cur] = "no_fstrings"]
    /\ cur' = cur + 1
    /\ UNCHANGED <<disk, ast, dry_run, run, pc, stats, all_conversions, written, before, patch,
                   backup, backups, fault, last_run, call, path>>

\* ast.parse raises an exception that is not a SyntaxError: analyze_file does not catch it
\* (line 450) and neither does the loop of scan_and_convert (line 384)
AnalyzeRaises ==
    /\ pc = "analyze" /\ cur <= NumFiles
    /\ fault[cur] = "too_deep"
    /\ pc' = "aborted"
    /\ UNCHANGED <<disk, ast, dry_run, run, cur, fstrings, stats, all_conversions, written, before,
                   patch, backup, backups, fault, outcome, last_run, call, path>>

\* a loop body that rewrites and counts the file although it has no candidate
AnalyzeNothingStillWrites ==
    /\ pc = "analyze" /\ cur <= NumFiles
    /\ Parses(cur)
    /\ Analyze(ast[cur]) = <<>>
    /\ fstrings' = [fstrings EXCEPT ![cur] = <<>>]
    /\ outcome' = [outcome EXCEPT ![cur] = "no_fstrings"]
    /\ stats' = [stats EXCEPT !.files_scanned = @ + 1, !.files_modified = @ + 1]
    /\ written' = [written EXCEPT ![run] = @ \cup {cur}]
    /\ cur' = cur + 1
    /\ UNCHANGED <<disk, ast, before, dry_run, run, pc, all_conversions, patch,
                   backup, backups, fault, last_run, call, path>>

\* scan_and_convert, lines 384-395 with analyze_file: the file has no candidate
AnalyzeNothing ==
    /\ pc = "analyze" /\ cur <= NumFiles
    /\ Parses(cur)
    /\ Analyze(ast[cur]) = <<>>
    /\ fstrings' = [fstrings EXCEPT ![cur] = <<>>]
    /\ outcome' = [outcome EXCEPT ![cur] = "no_fstrings"]
    /\ stats' = [stats EXCEPT !.files_scanned = @ + 1]
    /\ cur' = cur + 1
    /\ UNCHANGED <<disk, ast, before, dry_run, run, pc, all_conversions, written, patch,
                   backup, backups, fault, last_run, call, path>>

\* scan_and_convert, lines 384-386 with analyze_file: the file has candidates
AnalyzeFound ==
    /\ pc = "analyze" /\ cur <= NumFiles
    /\ Parses(cur)
    /\ LET found == Analyze(ast[cur])
       IN  /\ found # <<>>
           /\ fstrings' = [fstrings EXCEPT ![cur] = found]
           /\ stats' = [stats EXCEPT !.files_scanned = @ + 1,
                                     !.files_with_fstrings = @ + 1,
                                     !.fstrings_found = @ + Len(found)]
    /\ pc' = "convert"
    /\ UNCHANGED <<disk, ast, before, dry_run, run, cur, all_conversions, written, patch,
                   backup, backups, fault, outcome, last_run, call, path>>

\* the ConversionResult appended for an applied replacement, lines 539-547
ConversionResult(file, rep) ==
    [file_path |-> file, line_number |-> rep.start_line, original_code |-> rep.original_text,
     converted_code |-> rep.replacement_text, fstring_content |-> rep.template,
     variables_used |-> rep.variables, confidence |-> "high"]

\* the detail records of the replacements the loop applied
ConversionResults(file, applied) == [i \in 1..Len(applied) |-> ConversionResult(file, applied[i])]

\* a convert_file that opens the file for writing before it has read it
ConvertFailsTruncating ==
    /\ pc = "convert"
    /\ fault[cur] = "vanishes"
    /\ disk' = [disk EXCEPT ![cur] = <<>>]
    /\ outcome' = [outcome EXCEPT ![cur] = "failed_or_skipped"]
    /\ pc' = "analyze"
    /\ cur' = cur + 1
    /\ UNCHANGED <<ast, before, dry_run, run, fstrings, stats, all_conversions, written, patch,
                   backup, backups, fault, last_run, call, path>>

\* convert_file, lines 479-482 and 563-567: open(file_path, 'rb') raises, the handler at the
\* end of convert_file returns False
ConvertFails ==
    /\ pc = "convert"
    /\ fault[cur] = "vanishes"
    /\ outcome' = [outcome EXCEPT ![cur] = "failed_or_skipped"]
    /\ pc' = "analyze"
    /\ cur' = cur + 1
    /\ UNCHANGED <<disk, ast, before, dry_run, run, fstrings, stats, all_conversions, written,
                   patch, backup, backups, fault, last_run, call, path>>

\* convert_file up to line 556: the buffer is assembled, open(file_path, 'wb') raises, the
\* handler at the end of convert_file returns False
ConvertWriteFails ==
    /\ pc = "convert"
    /\ fault[cur] = "read_only" /\ ~dry_run
    /\ LET conversions_made == ConversionsMade(ast[cur], fstrings[cur])
           p == PatchAll(cur, ast[cur], disk[cur], conversions_made)
       IN  IF conversions_made = <<>>
           THEN UNCHANGED <<all_conversions, patch>>
           ELSE /\ patch' = p
                /\ all_conversions' = all_conversions \o ConversionResults(cur, p.st.applied)
    /\ outcome' = [outcome EXCEPT ![cur] = "failed_or_skipped"]
    /\ pc' = "analyze"
    /\ cur' = cur + 1
    /\ UNCHANGED <<disk, ast, before, dry_run, run, fstrings, stats, written,
                   backup, backups, fault, last_run, call, path>>

\* a convert_file whose dry run stops before the replacement loop
ConvertFileDryRunSkipsLoop ==
    /\ pc = "convert"
    /\ fault[cur] = "none" \/ (fault[cur] = "read_only" /\ dry_run)
    /\ LET conversions_made == ConversionsMade(ast[cur], fstrings[cur])
           p == PatchAll(cur, ast[cur], disk[cur], conversions_made)
       IN  IF conversions_made = <<>>
           THEN /\ outcome' = [outcome EXCEPT ![cur] = "failed_or_skipped"]
                /\ UNCHANGED <<disk, ast, written, stats, all_conversions, patch>>
           ELSE IF dry_run
           THEN /\ stats' = [stats EXCEPT !.fstrings_converted = @ + Len(conversions_made)]
                /\ outcome' = [outcome EXCEPT ![cur] = "would_convert"]
                /\ UNCHANGED <<disk, ast, written, all_conversions, patch>>
           ELSE /\ patch' = p
                /\ all_conversions' = all_conversions \o ConversionResults(cur, p.st.applied)
                /\ disk' = [disk EXCEPT ![cur] = p.final_source_bytes]
                /\ ast' = [ast EXCEPT ![cur] = ReparseModule(ast[cur], fstrings[cur])]
                /\ written' = [written EXCEPT ![run] = @ \cup {cur}]
                /\ stats' = [stats EXCEPT !.files_modified = @ + 1,
                                          !.fstrings_converted = @ + Len(conversions_made)]
                /\ outcome' = [outcome EXCEPT ![cur] = "converted"]
    /\ pc' = "analyze"
    /\ cur' = cur + 1
    /\ UNCHANGED <<before, dry_run, run, fstrings, backup, backups, fault, last_run, call, path>>

\* convert_file(py_file, fstrings) and the report of its result, lines 387-393
ConvertFile ==
    /\ pc = "convert"
    /\ fault[cur] = "none" \/ (fault[cur] = "read_only" /\ dry_run)
    /\ LET conversions_made == ConversionsMade(ast[cur], fstrings[cur])
           p == PatchAll(cur, ast[cur], disk[cur], conversions_made)
       IN  IF conversions_made = <<>>
           THEN /\ outcome' = [outcome EXCEPT ![cur] = "failed_or_skipped"]
                /\ UNCHANGED <<disk, ast, written, stats, all_conversions, patch>>
           ELSE
           /\ patch' = p
           /\ all_conversions' = all_conversions \o ConversionResults(cur, p.st.applied)
           /\ IF dry_run
              THEN /\ stats' = [stats EXCEPT !.fstrings_converted = @ + Len(conversions_made)]
                   /\ outcome' = [outcome EXCEPT ![cur] = "would_convert"]
                   /\ UNCHANGED <<disk, ast, written>>
              ELSE /\ disk' = [disk EXCEPT ![cur] = p.final_source_bytes]
                   /\ ast' = [ast EXCEPT ![cur] = ReparseModule(ast[cur], fstrings[cur])]
                   /\ written' = [written EXCEPT ![run] = @ \cup {cur}]
                   /\ stats' = [stats EXCEPT !.files_modified = @ + 1,
                                             !.fstrings_converted = @ + Len(conversions_made)]
                   /\ outcome' = [outcome EXCEPT ![cur] = "converted"]
    /\ pc' = "analyze"
    /\ cur' = cur + 1
    /\ UNCHANGED <<before, dry_run, run, fstrings, backup, backups, fault, last_run, call, path>>

\* what a run leaves behind for the comparison with the next one
RunRecord ==
    [run |-> run, dry_run |-> dry_run, before |-> before, fstrings |-> fstrings, patch |-> patch,
     all_conversions |-> all_conversions, stats |-> stats, outcome |-> outcome]

\* the converter is run again over the same directory
Rerun ==
    /\ pc = "analyze" /\ cur > NumFiles
    /\ run < MaxRuns
    /\ run' = run + 1
    /\ dry_run' \in BOOLEAN
    /\ cur' = 1
    /\ pc' = StartPc(dry_run', backup)
    /\ before' = disk
    /\ backups' = {}
    /\ fstrings' = [f \in DOMAIN disk |-> <<>>]
    /\ outcome' = [f \in DOMAIN disk |-> "pending"]
    /\ stats' = ZeroStats
    /\ all_conversions' = <<>>
    /\ patch' = PatchIdle
    /\ last_run' = RunRecord
    /\ UNCHANGED <<disk, ast, written, backup, fault, call, path>>

\* one run over a directory with faulty files and backups
NextScan ==
    \/ CreateBackups
    \/ AnalyzeFails
    \/ AnalyzeRaises
    \/ AnalyzeNothing
    \/ AnalyzeFound
    \/ ConvertFails
    \/ ConvertWriteFails
    \/ ConvertFile

SpecScan == InitScan /\ [][NextScan]_vars

(***************************************************************************)
(* The pure functions of the analyzer called on their own: the string      *)
(* classifier on contents and context lines that need not come from a      *)
(* parsed file, and the placeholder of an embedded expression.             *)
(***************************************************************************)
Tokens == {<<"H","e","l","l","o"," ">>, <<"e","r","r","o","r"," ">>, <<"{","}"," ">>, <<"d","o","n","e","."," ">>, <<"U2705">>, <<"U2500">>, <<"=">>, <<"/">>}

BoundaryContents ==
    {<<"-","-","-","-">>, <<"=","=","=","=">>, <<"i","m","p","o","r","t"," ","o","s">>, <<"U2705"," ","O","p","e","r","a","t","i","o","n"," ","c","o","m","p","l","e","t","e">>,
     <<"A","r","e"," ","y","o","u"," ","s","u","r","e"," ","y","o","u"," ","w","a","n","t"," ","t","o"," ","c","o","n","t","i","n","u","e","?">>, <<"S","a","v","e"," ","c","h","a","n","g","e","s","?">>,
     <<>>, <<" "," "," ">>, <<"\n">>, <<"s","r","c","/","o","m","n","i","l","a","n","g">>, <<"a","/","b"," ","c">>, <<"~","~","~">>, <<"U2500","U2500">>, <<"U250C","U2500","U2500","U2510">>,
     <<"{","}",":"," ","{","}">>, <<"{","}",","," ","{","}",","," ","{","}">>, <<"O","K">>, <<"N","O"," ","G","O",":"," ","1","2">>, <<"H","e","l","l","o"," ","{","}","!">>, <<"-","-","-"," ","s","t","d","e","r","r"," ","-","-","-">>,
     <<"U2705"," ","U2705">>, <<"s","e","t","u","p",".","p","y">>, <<"x">>}

Contents == BoundaryContents \cup {Concat(s) : s \in SeqsUpTo(Tokens, MaxTokens)}

\* the line the string is on
Contexts == {<<>>, <<" "," ","P","r","i","n","t","(","x",")">>, <<"x"," ","="," ","y">>, <<"_","(","x",")">>}

ClassifierCalls ==
    {[op |-> "classify", args |-> <<content, context>>, pc |-> "call", result |-> "none"] :
         content \in Contents, context \in Contexts}

\* the format specifiers >8, .2f, >{w} and {w}.{p}
FormatSpecs ==
    {NoSpec,
     FormatSpec(<<Seg(<<">","8">>)>>),
     FormatSpec(<<Seg(<<".","2","f">>)>>),
     FormatSpec(<<Seg(<<">">>), FValue(Name(<<"w">>), -1, NoSpec)>>),
     FormatSpec(<<FValue(Name(<<"w">>), -1, NoSpec), Seg(<<".">>), FValue(Name(<<"p">>), -1, NoSpec)>>)}

\* no conversion, !r, !s, !a
Conversions == {-1, 114, 115, 97}

\* the embedded expressions {x...} and {x+n...} of an interpolated string
FormattedValues ==
    {FValue(e, c, s) : e \in {Name(<<"x">>), BinOp(Name(<<"x">>), <<"+">>, Name(<<"n">>), TRUE)},
                       c \in Conversions, s \in FormatSpecs}

PlaceholderCalls ==
    {[op |-> "placeholder", args |-> <<value>>, pc |-> "call", result |-> "none"] :
         value \in FormattedValues}

\* statements for the analyzer and the transformer on their own
AnalyzerStatements ==
    { Greeting,
      \* print(f"Hi {x}", "Bye now")
      ExprStmt(Call(Name(<<"p","r","i","n","t">>),
                    <<FStr(<<DQ>>, <<Seg(<<"H","i"," ">>), FValue(Name(<<"x">>), -1, NoSpec)>>),
                      Str(<<"\"","B","y","e"," ","n","o","w","\"">>)>>),
               NoTrail),
      \* print(f"Set {{x}} to {name}")
      ExprStmt(Call(Name(<<"p","r","i","n","t">>),
                    <<FStr(<<DQ>>, <<Seg(<<"S","e","t"," ","{","x","}"," ","t","o"," ">>), FValue(Name(<<"n","a","m","e">>), -1, NoSpec)>>)>>),
               NoTrail),
      \* print(f"Total {len(f'{x} items')} found")
      ExprStmt(Call(Name(<<"p","r","i","n","t">>),
                    <<FStr(<<DQ>>,
                           <<Seg(<<"T","o","t","a","l"," ">>),
                             FValue(Call(Name(<<"l","e","n">>),
                                         <<FStr(<<SQ>>, <<FValue(Name(<<"x">>), -1, NoSpec),
                                                          Seg(<<" ","i","t","e","m","s">>)>>)>>),
                                    -1, NoSpec),
                             Seg(<<" ","f","o","u","n","d">>)>>)>>),
               NoTrail),
      \* print(f"Total {x:>8} found")
      ExprStmt(Call(Name(<<"p","r","i","n","t">>),
                    <<FStr(<<DQ>>, <<Seg(<<"T","o","t","a","l"," ">>),
                                     FValue(Name(<<"x">>), -1, FormatSpec(<<Seg(<<">","8">>)>>)),
                                     Seg(<<" ","f","o","u","n","d">>)>>)>>),
               NoTrail) }

AnalyzerPrograms == SeqsUpTo(AnalyzerStatements, MaxStmts) \ {<<>>}

AnalyzerCalls ==
    {[op |-> "analyze", args |-> <<body>>, pc |-> "call", result |-> "none"] :
         body \in AnalyzerPrograms}

\* the statements of the files handed to auto_fix_all
FixerLines ==
    {<<"_"," ","="," ","f","(",")","\n">>, <<"f","o","r"," ","_"," ","i","n"," ","x","s",":"," ","p","a","s","s","\n">>, <<"x",","," ","_",","," ","y"," ","="," ","t","\n">>, <<"p","r","i","n","t","(","_","(","'","h","i","'",")",")","\n">>,
     \* a page break (a line that holds a form feed) before a statement
     <<"\f","\n","_"," ","="," ","f","(",")","\n">>,
     <<"#"," ","_"," ","="," ","1","\n">>}

FixerTexts == {Concat(lines) : lines \in SeqsUpTo(FixerLines, MaxStmts) \ {<<>>}}

AppPath == <<"p","k","g","/","a","p","p",".","p","y">>
I18nPath == <<"p","k","g","/","i","1","8","n",".","p","y">>
MainPath == <<"p","k","g","/","_","_","m","a","i","n","_","_",".","p","y">>

\* a directory that holds one file
OneFile(file_path, raw) == <<[path |-> file_path, raw |-> raw]>>

\* auto_fix_all('_', 'unused') over a directory, with the ignore list it finds
AutoFixCalls ==
    {[op |-> "auto_fix_all", args |-> <<OneFile(AppPath, raw), ignore_list>>, pc |-> "call",
      result |-> "none"] : raw \in FixerTexts, ignore_list \in {{}, {<<AppPath, 1>>}}}
    \cup {[op |-> "auto_fix_all", args |-> <<OneFile(I18nPath, raw), {}>>, pc |-> "call",
           result |-> "none"] : raw \in FixerTexts}

\* the statements of the files handed to the import injector
InjectLines ==
    {<<"i","m","p","o","r","t"," ","o","s","\n">>, <<"p","r","i","n","t","(","_","(","'","x","'",")",")","\n">>, <<"\"","\"","\"","d","o","c","\"","\"","\"","\n">>,
     \* an import statement of two lines
     <<"f","r","o","m"," ","a"," ","i","m","p","o","r","t"," ","(","\n"," "," "," "," ","b",")","\n">>,
     \* a last line without a line feed
     <<"i","m","p","o","r","t"," ","o","s">>}

\* a line without a line feed is the last line of its file
InjectTexts ==
    {Concat(lines) : lines \in {ls \in SeqsUpTo(InjectLines, MaxStmts) \ {<<>>} :
                                   \A k \in 1..(Len(ls) - 1) : ls[k][Len(ls[k])] = "\n"}}

InjectCalls ==
    {[op |-> "inject_i18n_import", args |-> <<raw>>, pc |-> "call", result |-> "none"] :
         raw \in InjectTexts}

ImportCalls ==
    {[op |-> "auto_fix_missing_imports", args |-> <<OneFile(file_path, raw)>>, pc |-> "call",
      result |-> <<>>] : file_path \in {AppPath, MainPath}, raw \in InjectTexts}

InitCalls ==
    /\ \/ call \in ClassifierCalls
       \/ call \in PlaceholderCalls
       \/ call \in AnalyzerCalls
       \/ call \in AutoFixCalls
       \/ call \in InjectCalls
       \/ call \in ImportCalls
    /\ ast = <<>>
    /\ disk = <<>>
    /\ fault = <<>>
    /\ before = <<>>
    /\ dry_run = TRUE
    /\ backup = FALSE
    /\ backups = {}
    /\ run = 1
    /\ cur = 1
    /\ pc = "call"
    /\ fstrings = <<>>
    /\ outcome = <<>>
    /\ stats = ZeroStats
    /\ all_conversions = <<>>
    /\ written = [r \in 1..MaxRuns |-> {}]
    /\ patch = PatchIdle
    /\ last_run = NoRun
    /\ path = <<>>

\* self._is_user_facing_string(content, context)
Classify ==
    /\ call.op = "classify" /\ call.pc = "call"
    /\ call' = [call EXCEPT !.pc = "return",
                            !.result = IsUserFacingString(call.args[1], call.args[2])]
    /\ UNCHANGED <<disk, ast, dry_run, run, cur, pc, fstrings, stats, all_conversions, written,
                   before, patch, backup, backups, fault, outcome, last_run, path>>

\* visit_JoinedStr, lines 127-142, for one FormattedValue
BuildPlaceholder ==
    /\ call.op = "placeholder" /\ call.pc = "call"
    /\ call' = [call EXCEPT !.pc = "return", !.result = Placeholder(call.args[1])]
    /\ UNCHANGED <<disk, ast, dry_run, run, cur, pc, fstrings, stats, all_conversions, written,
                   before, patch, backup, backups, fault, outcome, last_run, path>>

\* analyze_file, lines 448-465: the candidates of a parsed file
AnalyzeCall ==
    /\ call.op = "analyze" /\ call.pc = "call"
    /\ call' = [call EXCEPT !.pc = "analyzed",
                            !.result = [strings_to_convert |-> Analyze(call.args[1]),
                                        conversions_made |-> <<>>]]
    /\ UNCHANGED <<disk, ast, dry_run, run, cur, pc, fstrings, stats, all_conversions, written,
                   before, patch, backup, backups, fault, outcome, last_run, path>>

\* convert_file, lines 492-496: the replacements the transformer records for the candidates
TransformCall ==
    /\ call.op = "analyze" /\ call.pc = "analyzed"
    /\ call' = [call EXCEPT !.pc = "return",
                            !.result.conversions_made =
                                ConversionsMade(call.args[1], call.result.strings_to_convert)]
    /\ UNCHANGED <<disk, ast, dry_run, run, cur, pc, fstrings, stats, all_conversions, written,
                   before, patch, backup, backups, fault, outcome, last_run, path>>

\* auto_fix_all, lines 419-442: the findings of every file, then the fixes
auto_fix_all(dir, ignore_list) ==
    [f \in 1..Len(dir) |->
        [path |-> dir[f].path, raw |-> FixFile(dir[f].path, dir[f].raw, ignore_list)]]

AutoFixCall ==
    /\ call.op = "auto_fix_all" /\ call.pc = "call"
    /\ call' = [call EXCEPT !.pc = "return", !.result = auto_fix_all(call.args[1], call.args[2])]
    /\ UNCHANGED <<disk, ast, dry_run, run, cur, pc, fstrings, stats, all_conversions, written,
                   before, patch, backup, backups, fault, outcome, last_run, path>>

InjectCall ==
    /\ call.op = "inject_i18n_import" /\ call.pc = "call"
    /\ call' = [call EXCEPT !.pc = "return", !.result = inject_i18n_import(call.args[1])]
    /\ UNCHANGED <<disk, ast, dry_run, run, cur, pc, fstrings, stats, all_conversions, written,
                   before, patch, backup, backups, fault, outcome, last_run, path>>

\* find_files_needing_i18n_import: the files of the directory that need the import
find_files_needing_i18n_import(dir) ==
    Ascending(Len(dir), {f \in 1..Len(dir) : NeedsImport(dir[f].path, dir[f].raw)})

\* auto_fix_missing_imports, lines 459-474, every write succeeding
auto_fix_missing_imports(dir) ==
    LET files_needing == find_files_needing_i18n_import(dir)
    IN  [f \in 1..Len(dir) |->
            IF \E k \in 1..Len(files_needing) : files_needing[k] = f
            THEN [path |-> dir[f].path, raw |-> inject_i18n_import(dir[f].raw)]
            ELSE dir[f]]

FixMissingImports ==
    /\ call.op = "auto_fix_missing_imports" /\ call.pc = "call"
    /\ call' = [call EXCEPT !.pc = "again", !.result = <<auto_fix_missing_imports(call.args[1])>>]
    /\ UNCHANGED <<disk, ast, dry_run, run, cur, pc, fstrings, stats, all_conversions, written,
                   before, patch, backup, backups, fault, outcome, last_run, path>>

\* auto_fix_missing_imports is run a second time over the directory
FixMissingImportsAgain ==
    /\ call.op = "auto_fix_missing_imports" /\ call.pc = "again"
    /\ call' = [call EXCEPT !.pc = "return",
                            !.result = Append(@, auto_fix_missing_imports(call.result[1]))]
    /\ UNCHANGED <<disk, ast, dry_run, run, cur, pc, fstrings, stats, all_conversions, written,
                   before, patch, backup, backups, fault, outcome, last_run, path>>

NextCalls ==
    \/ Classify
    \/ BuildPlaceholder
    \/ AnalyzeCall
    \/ TransformCall
    \/ AutoFixCall
    \/ InjectCall
    \/ FixMissingImports
    \/ FixMissingImportsAgain

SpecCalls == InitCalls /\ [][NextCalls]_vars

\* the call of the classifier has returned for this content
Classified(content) ==
    call.op = "classify" /\ call.pc = "return" /\ call.args[1] = content

(***************************************************************************)
(* do_refactor (cli.py): the underscore fixer, the converter and the       *)
(* import injector, one after the other, over the files of the source      *)
(* directories.  call is the frame of do_refactor; the converter of step 2 *)
(* is the machine above.  No ignore list is present.                       *)
(***************************************************************************)
\* _ = name
Lazy == Assign(Name(<<"_">>), Name(<<"n","a","m","e">>), NoTrail)

\* unused = name
Unused == Assign(Name(<<"u","n","u","s","e","d">>), Name(<<"n","a","m","e">>), NoTrail)

\* from omnipkg.i18n import _
ImportI18n == ImportFrom(<<"o","m","n","i","p","k","g",".","i","1","8","n">>, <<<<"_">>>>, NoTrail)

\* print(_('Hello {}!').format(name))
ConvertedGreeting == ReparseModule(<<Greeting>>, Analyze(<<Greeting>>))[1]

\* the statements of the files of the directory, before and after the three steps
RefactorStatements == {Greeting, ConvertedGreeting, Translated, Lazy, Unused, ImportI18n}

\* the text of every file the steps can leave behind
RefactorTexts ==
    [body \in SeqsUpTo(RefactorStatements, MaxStmts + 1) |-> ModuleText(body)]

\* ast.parse(source_code).body for the text of a file; nothing if the text does not parse
ParseModule(text) ==
    IF \E body \in DOMAIN RefactorTexts : RefactorTexts[body] = text
    THEN CHOOSE body \in DOMAIN RefactorTexts : RefactorTexts[body] = text
    ELSE <<>>

\* the characters of well-formed UTF-8 bytes
Decode(bytes) ==
    LET firsts == Keep(bytes, {j \in 1..Len(bytes) : bytes[j][2] = 1})
    IN  [n \in 1..Len(firsts) |-> firsts[n][1]]

\* the files of the directory do_refactor works on
RefactorFiles ==
    {[name |-> <<"a","p","p",".","p","y">>, tree |-> <<Greeting>>, bytes |-> Encode(ModuleText(<<Greeting>>)), fault |-> k] :
         k \in {"none", "unreadable", "read_only"}}
    \cup {[name |-> file.name, tree |-> file.tree, bytes |-> Encode(ModuleText(file.tree)), fault |-> "none"] :
            file \in {[name |-> <<"_","_","m","a","i","n","_","_",".","p","y">>, tree |-> <<Greeting>>],
                      [name |-> <<"a","p","p",".","p","y">>, tree |-> <<ImportI18n, Greeting>>],
                      [name |-> <<"a","p","p",".","p","y">>, tree |-> <<Lazy, Translated>>],
                      [name |-> <<"i","1","8","n",".","p","y">>, tree |-> <<Lazy>>]}}
    \* x = a.b.b. ... .b, longer than the parser's recursion limit
    \cup {[name |-> <<"a","p","p",".","p","y">>, tree |-> <<>>, bytes |-> Encode(<<"x"," ","="," ","a",".","b",".","b">>), fault |-> "too_deep"]}

\* do_refactor(dry_run, no_backup) is called
InitRefactor ==
    /\ \E files \in [1..MaxFiles -> RefactorFiles] :
          /\ ast = [f \in 1..MaxFiles |-> files[f].tree]
          /\ disk = [f \in 1..MaxFiles |-> files[f].bytes]
          /\ fault = [f \in 1..MaxFiles |-> files[f].fault]
          /\ path = [f \in 1..MaxFiles |-> FilePath(f, files[f].name)]
    /\ before = disk
    /\ dry_run \in BOOLEAN
    /\ backup \in BOOLEAN
    /\ call = [op |-> "do_refactor", args |-> <<dry_run, ~backup>>, pc |-> "step1", result |-> "none"]
    /\ backups = {}
    /\ run = 1
    /\ cur = 1
    /\ pc = "idle"
    /\ fstrings = [f \in 1..MaxFiles |-> <<>>]
    /\ outcome = [f \in 1..MaxFiles |-> "pending"]
    /\ stats = ZeroStats
    /\ all_conversions = <<>>
    /\ written = [r \in 1..MaxRuns |-> {}]
    /\ patch = PatchIdle
    /\ last_run = NoRun

\* open(file_path, 'r') and f.read() succeed, open(file_path, 'w') succeeds
Readable(f) == fault[f] \notin {"unreadable", "not_utf8"}
Writable(f) == fault[f] # "read_only"

\* the file f once its characters are raw
Rewritten(f, raw) ==
    IF raw = Decode(disk[f]) THEN [bytes |-> disk[f], tree |-> ast[f]]
    ELSE [bytes |-> Encode(raw), tree |-> ParseModule(raw)]

\* the characters auto_fix_all leaves in file f
Fixed(f) ==
    IF Readable(f) /\ Writable(f) THEN FixFile(path[f], Decode(disk[f]), {}) ELSE Decode(disk[f])

\* the characters auto_fix_missing_imports leaves in file f
Injected(f) ==
    IF Readable(f) /\ Writable(f) /\ NeedsImport(path[f], Decode(disk[f]))
    THEN inject_i18n_import(Decode(disk[f]))
    ELSE Decode(disk[f])

\* a step 1 that runs the fixer in a dry run too
FixPlaceholdersAlways ==
    /\ call.op = "do_refactor" /\ call.pc = "step1"
    /\ disk' = [f \in DOMAIN disk |-> Rewritten(f, Fixed(f)).bytes]
    /\ ast' = [f \in DOMAIN disk |-> Rewritten(f, Fixed(f)).tree]
    /\ before' = disk'
    /\ call' = [call EXCEPT !.pc = "step2"]
    /\ pc' = StartPc(dry_run, backup)
    /\ UNCHANGED <<dry_run, run, cur, fstrings, stats, all_conversions, written, patch, backup,
                   backups, fault, outcome, last_run, path>>

\* do_refactor, lines 437-451 and 456: step 1, then the converter of step 2 is made
FixPlaceholders ==
    /\ call.op = "do_refactor" /\ call.pc = "step1"
    /\ IF dry_run
       THEN UNCHANGED <<disk, ast>>
       ELSE /\ disk' = [f \in DOMAIN disk |-> Rewritten(f, Fixed(f)).bytes]
            /\ ast' = [f \in DOMAIN disk |-> Rewritten(f, Fixed(f)).tree]
    /\ before' = disk'
    /\ call' = [call EXCEPT !.pc = "step2"]
    /\ pc' = StartPc(dry_run, backup)
    /\ UNCHANGED <<dry_run, run, cur, fstrings, stats, all_conversions, written, patch, backup,
                   backups, fault, outcome, last_run, path>>

\* do_refactor, lines 460-470: step 3, once scan_and_convert has returned
InjectImports ==
    /\ call.op = "do_refactor" /\ call.pc = "step2"
    /\ pc = "analyze" /\ cur > NumFiles
    /\ IF dry_run
       THEN UNCHANGED <<disk, ast>>
       ELSE /\ disk' = [f \in DOMAIN disk |-> Rewritten(f, Injected(f)).bytes]
            /\ ast' = [f \in DOMAIN disk |-> Rewritten(f, Injected(f)).tree]
    /\ call' = [call EXCEPT !.pc = "return"]
    /\ UNCHANGED <<dry_run, run, cur, pc, fstrings, stats, all_conversions, written, before, patch,
                   backup, backups, fault, outcome, last_run, path>>

NextRefactor ==
    \/ FixPlaceholders
    \/ CreateBackups
    \/ AnalyzeFails
    \/ AnalyzeRaises
    \/ AnalyzeNothing
    \/ AnalyzeFound
    \/ ConvertWriteFails
    \/ ConvertFile
    \/ InjectImports

SpecRefactor == InitRefactor /\ [][NextRefactor]_vars

(***************************************************************************)
(* TranslationHelper._translate_google_fallback_v5 (helper.py): the text   *)
(* is split around its placeholders and the segments are translated one by *)
(* one.  What google_translator.translate does at each attempt is an input *)
(* of the step: a translation, a translation without text, an error whose  *)
(* message holds '429', or another error.  _validate_translation is not    *)
(* translated: either verdict is possible for the joined text.  In this    *)
(* specification call.result holds the locals of the coroutine.            *)
(***************************************************************************)
\* r'(\{[^{}]*\})'
placeholder_pattern == RCat(<<RLit(<<"{">>), RStar(RNot({"{", "}"})), RLit(<<"}">>)>>)

max_retries == 3

RECURSIVE SplitFrom(_, _, _, _)
\* re.split of s by a pattern in one group that matches no empty text: the text before each
\* match, then the match; i is the offset the search is at, start the end of the last match
SplitFrom(r, s, i, start) ==
    IF i >= Len(s) THEN <<SubSeq(s, start + 1, Len(s))>>
    ELSE LET ends == Ends(r, s, i)
         IN  IF ends # <<>>
             THEN <<SubSeq(s, start + 1, i), SubSeq(s, i + 1, ends[1])>>
                      \o SplitFrom(r, s, ends[1], ends[1])
             ELSE SplitFrom(r, s, i + 1, start)

Split(r, s) == CHOOSE out \in {SplitFrom(r, text, 0, 0) : text \in {s}} : TRUE

\* re.fullmatch(r, s) is not None
FullMatch(r, s) == \E text \in {s} : \E n \in DOMAIN Ends(r, text, 0) : Ends(r, text, 0)[n] = Len(text)

\* what the texts handed to the function are made of
TranslateTokens == {<<"H","i">>, <<" ">>, <<"{","x","}">>, <<"{">>, <<"}">>}
TranslateTexts == {Concat(s) : s \in SeqsUpTo(TranslateTokens, MaxTokens)}

\* translation.text when it is not empty
Translations == {<<"H","o">>, <<"{","y","}">>}

\* the segment the loop is at
Segment == call.result.segments[Len(call.result.translated_segments) + 1]

InLoop ==
    /\ call.op = "_translate_google_fallback_v5" /\ call.pc = "segment"
    /\ Len(call.result.translated_segments) < Len(call.result.segments)

\* lines 445 and 450: the segment goes to the translator
NeedsTranslation(segment) ==
    ~FullMatch(placeholder_pattern, segment) /\ StripSpace(segment) # <<>>

\* the loop goes to the next segment after appending text; attempts are what the translator did
Appended(text, attempts) ==
    [call.result EXCEPT !.translated_segments = Append(@, text),
                        !.attempts = Append(@, attempts),
                        !.attempt = 0,
                        !.tried = <<>>]

\* an error e at attempt number attempt is followed by another attempt at any error
RetriesAnyError(e, attempt) == attempt < max_retries - 1

\* lines 470-471: an error e at attempt number attempt is followed by another attempt
ShouldRetry(e, attempt) == e = "429" /\ attempt < max_retries - 1

\* _translate_google_fallback_v5(text, dest_lang) is called; lines 438-442
InitTranslate ==
    /\ \E text \in TranslateTexts :
          call = [op |-> "_translate_google_fallback_v5", args |-> <<text>>, pc |-> "segment",
                  result |-> [segments |-> Split(placeholder_pattern, text),
                              translated_segments |-> <<>>,
                              attempt |-> 0,
                              tried |-> <<>>,
                              attempts |-> <<>>,
                              returned |-> {}]]
    /\ ast = <<>>
    /\ disk = <<>>
    /\ fault = <<>>
    /\ before = <<>>
    /\ dry_run = TRUE
    /\ backup = FALSE
    /\ backups = {}
    /\ run = 1
    /\ cur = 1
    /\ pc = "call"
    /\ fstrings = <<>>
    /\ outcome = <<>>
    /\ stats = ZeroStats
    /\ all_conversions = <<>>
    /\ written = [r \in 1..MaxRuns |-> {}]
    /\ patch = PatchIdle
    /\ last_run = NoRun
    /\ path = <<>>

\* lines 445-447 and 483-485: a placeholder or a blank segment
PassThrough ==
    /\ InLoop
    /\ ~NeedsTranslation(Segment)
    /\ call' = [call EXCEPT !.result = Appended(Segment, <<>>)]
    /\ UNCHANGED <<disk, ast, dry_run, run, cur, pc, fstrings, stats, all_conversions, written,
                   before, patch, backup, backups, fault, outcome, last_run, path>>

\* lines 455-466: translate returns, with a text or without one
TranslateReturns ==
    /\ InLoop
    /\ NeedsTranslation(Segment)
    /\ \E text \in Translations \cup {<<>>} :
          call' = [call EXCEPT !.result =
                      Appended(IF text # <<>> THEN text ELSE Segment,
                               Append(call.result.tried, "returned"))]
    /\ UNCHANGED <<disk, ast, dry_run, run, cur, pc, fstrings, stats, all_conversions, written,
                   before, patch, backup, backups, fault, outcome, last_run, path>>

\* lines 468-474: translate raises and the loop goes to the next attempt
TranslateRetry ==
    /\ InLoop
    /\ NeedsTranslation(Segment)
    /\ \E e \in {"429", "other"} :
          /\ ShouldRetry(e, call.result.attempt)
          /\ call' = [call EXCEPT !.result.attempt = @ + 1,
                                  !.result.tried = Append(@, e)]
    /\ UNCHANGED <<disk, ast, dry_run, run, cur, pc, fstrings, stats, all_conversions, written,
                   before, patch, backup, backups, fault, outcome, last_run, path>>

\* lines 475-482: translate raises and the segment is kept as it is
TranslateGivesUp ==
    /\ InLoop
    /\ NeedsTranslation(Segment)
    /\ \E e \in {"429", "other"} :
          /\ ~ShouldRetry(e, call.result.attempt)
          /\ call' = [call EXCEPT !.result = Appended(Segment, Append(call.result.tried, e))]
    /\ UNCHANGED <<disk, ast, dry_run, run, cur, pc, fstrings, stats, all_conversions, written,
                   before, patch, backup, backups, fault, outcome, last_run, path>>

\* lines 488-500: the segments are joined; result is returned if it is valid, None otherwise
JoinSegments ==
    /\ call.op = "_translate_google_fallback_v5" /\ call.pc = "segment"
    /\ Len(call.result.translated_segments) = Len(call.result.segments)
    /\ \E is_valid \in BOOLEAN :
          call' = [call EXCEPT !.pc = "return",
                               !.result.returned =
                                   IF is_valid /\ StripSpace(Concat(call.result.translated_segments)) # <<>>
                                   THEN {Concat(call.result.translated_segments)}
                                   ELSE {}]
    /\ UNCHANGED <<disk, ast, dry_run, run, cur, pc, fstrings, stats, all_conversions, written,
                   before, patch, backup, backups, fault, outcome, last_run, path>>

NextTranslate ==
    \/ PassThrough
    \/ TranslateReturns
    \/ TranslateRetry
    \/ TranslateGivesUp
    \/ JoinSegments

SpecTranslate == InitTranslate /\ [][NextTranslate]_vars
Next == AnalyzeNothing \/ AnalyzeFound \/ ConvertFile \/ Rerun

Spec == Init /\ [][Next]_vars

\* the tree the model holds for a file is the tree of the bytes the file holds
Coherent == \A f \in DOMAIN disk : Parses(f) => disk[f] = Encode(ModuleText(ast[f]))

(***************************************************************************)
(* The patch loop of convert_file on its own, one iteration at a time, on  *)
(* replacement lists that need not come from the transformer: the spans    *)
(* may overlap.  The starts are pairwise distinct, as they are in every    *)
(* list the transformer records (one entry per location key).              *)
(***************************************************************************)
PatchTexts == {<<"U2705","a","\n","b","c">>, <<"a","b">>}

ReplacementTexts == {<<"X">>, <<"U2705","Y">>}

\* the (lineno, col_offset) pairs of the characters of text, and of its end
Positions(text) == {LocationKey(text, off) : off \in 0..Len(text)}

\* a is before b in the file
PosLess(a, b) == a[1] < b[1] \/ (a[1] = b[1] /\ a[2] < b[2])

Spans(text) == {s \in Positions(text) \X Positions(text) : PosLess(s[1], s[2])}

\* an entry of conversions_made for the span s
Replacement(s, replacement_text) ==
    [start_line |-> s[1][1], start_col |-> s[1][2], end_line |-> s[2][1], end_col |-> s[2][2],
     original_text |-> <<>>, replacement_text |-> replacement_text,
     template |-> <<>>, variables |-> <<>>]

Replacements(text) == {Replacement(s, r) : s \in Spans(text), r \in ReplacementTexts}

StartKey(rep) == <<rep.start_line, rep.start_col>>

DistinctStarts(reps) ==
    \A i, j \in 1..Len(reps) : i < j => StartKey(reps[i]) # StartKey(reps[j])

InitPatch ==
    /\ \E text \in PatchTexts :
       \E reps \in {s \in SeqsUpTo(Replacements(text), MaxReps) : DistinctStarts(s)} :
           patch = PatchInit(1, <<>>, Encode(text), reps)
    /\ ast = [f \in FileIds |-> <<>>]
    /\ disk = [f \in FileIds |-> patch.source_bytes]
    /\ before = disk
    /\ dry_run = TRUE
    /\ run = 1
    /\ cur = 1
    /\ pc = "patch"
    /\ fstrings = [f \in FileIds |-> <<>>]
    /\ stats = ZeroStats
    /\ all_conversions = <<>>
    /\ written = [r \in 1..MaxRuns |-> {}]
    /\ backup = FALSE
    /\ backups = {}
    /\ fault = [f \in FileIds |-> "none"]
    /\ outcome = [f \in FileIds |-> "pending"]
    /\ last_run = NoRun
    /\ call = NoCall
    /\ path = [f \in FileIds |-> FilePath(f, <<"a","p","p",".","p","y">>)]

\* lines 503-519
PatchBegin ==
    /\ pc = "patch" /\ patch.pc = "start"
    /\ patch' = PatchSorted(patch)
    /\ UNCHANGED <<disk, ast, dry_run, run, cur, pc, fstrings, stats, all_conversions, written, before,
                   backup, backups, fault, outcome, last_run, call, path>>

\* lines 521-547: one iteration
PatchIterate ==
    /\ pc = "patch" /\ patch.pc = "loop" /\ patch.i < Len(patch.replacements)
    /\ patch' = PatchIter(patch)
    /\ UNCHANGED <<disk, ast, dry_run, run, cur, pc, fstrings, stats, all_conversions, written, before,
                   backup, backups, fault, outcome, last_run, call, path>>

\* lines 549-553
PatchFinish ==
    /\ pc = "patch" /\ patch.pc = "loop" /\ patch.i = Len(patch.replacements)
    /\ patch' = PatchDone(patch)
    /\ UNCHANGED <<disk, ast, dry_run, run, cur, pc, fstrings, stats, all_conversions, written, before,
                   backup, backups, fault, outcome, last_run, call, path>>

NextPatch == PatchBegin \/ PatchIterate \/ PatchFinish

SpecPatch == InitPatch /\ [][NextPatch]_vars

(***************************************************************************)
(* What the properties below are stated with.                              *)
(***************************************************************************)
\* the 0-based offset in source_bytes of the byte at column col of line `line`
OffsetOf(source_bytes, line, col) ==
    CHOOSE p \in 0..Len(source_bytes) :
        /\ Cardinality({i \in 1..p : source_bytes[i] = NL}) = line - 1
        /\ p >= col
        /\ \A i \in (p - col + 1)..p : source_bytes[i] # NL
        /\ p = col \/ source_bytes[p - col] = NL

SpanStart(source_bytes, rep) == OffsetOf(source_bytes, rep.start_line, rep.start_col)
SpanEnd(source_bytes, rep) == OffsetOf(source_bytes, rep.end_line, rep.end_col)

Overlap(source_bytes, a, b) ==
    /\ SpanStart(source_bytes, a) < SpanEnd(source_bytes, b)
    /\ SpanStart(source_bytes, b) < SpanEnd(source_bytes, a)

NonOverlapping(source_bytes, reps) ==
    \A i, j \in 1..Len(reps) : i < j => ~Overlap(source_bytes, reps[i], reps[j])

\* source_bytes read from its first byte to its last: the text of the replacement that
\* starts at a byte, and the byte itself unless a span covers it
Expected(source_bytes, reps) ==
    Concat([p \in 1..(Len(source_bytes) + 1) |->
               Concat([i \in 1..Len(reps) |->
                          IF SpanStart(source_bytes, reps[i]) = p - 1
                          THEN Encode(reps[i].replacement_text) ELSE <<>>])
               \o (IF /\ p <= Len(source_bytes)
                      /\ \A i \in 1..Len(reps) :
                             \/ p - 1 < SpanStart(source_bytes, reps[i])
                             \/ p - 1 >= SpanEnd(source_bytes, reps[i])
                   THEN <<source_bytes[p]>> ELSE <<>>)])

\* of a list sorted by descending start: the replacements that overlap none kept before them
RECURSIVE KeepDisjoint(_, _, _)
KeepDisjoint(source_bytes, kept, rest) ==
    IF rest = <<>> THEN kept
    ELSE KeepDisjoint(source_bytes,
                      IF \E i \in 1..Len(kept) : Overlap(source_bytes, kept[i], Head(rest))
                      THEN kept ELSE Append(kept, Head(rest)),
                      Tail(rest))

\* the orders a list can be recorded in
Orders(s) ==
    {[i \in 1..Len(s) |-> s[g[i]]] :
        g \in {h \in [1..Len(s) -> 1..Len(s)] : \A i, j \in 1..Len(s) : h[i] = h[j] => i = j}}

RECURSIVE Descendants(_, _)
RECURSIVE DescendantsOf(_)
\* a node and everything below it, each with the offset of its first character
Descendants(n, off) == <<[node |-> n, off |-> off]>> \o DescendantsOf(Children(n, off))

DescendantsOf(children) ==
    IF children = <<>> THEN <<>>
    ELSE Descendants(Head(children).node, Head(children).off) \o DescendantsOf(Tail(children))

\* every node of a module
NodeSet(body) ==
    LET all == DescendantsOf(ModuleChildren(body)) IN {all[i] : i \in 1..Len(all)}

\* a string of the file: a plain literal or an f-string, not a part of one
IsString(n) == n.t \in {"JoinedStr", "Constant"} /\ ~IsSeg(n) /\ ~IsSpec(n)

\* the string a recorded replacement is for
TargetOf(body, rep) ==
    (CHOOSE e \in NodeSet(body) :
        IsString(e.node) /\ LocationKey(ModuleText(body), e.off) = StartKey(rep)).node

\* the expressions an f-string embeds, left to right
Embedded(n) ==
    LET holes == SelectSeq(n.values, LAMBDA v : v.t = "FormattedValue")
    IN  [i \in 1..Len(holes) |-> holes[i].value]

\* the string literal that follows `_(` in a replacement text
EmittedLiteral(replacement_text) ==
    LET close == CHOOSE j \in 4..Len(replacement_text) :
                    /\ replacement_text[j] = replacement_text[3]
                    /\ BackslashRun(replacement_text, j - 1) % 2 = 0
                    /\ \A k \in 4..(j - 1) :
                          ~(/\ replacement_text[k] = replacement_text[3]
                            /\ BackslashRun(replacement_text, k - 1) % 2 = 0)
    IN  SubSeq(replacement_text, 3, close)

\* _(<literal>) followed by .format(<args>) when there are args
CallText(literal, args) ==
    <<"_","(">> \o literal \o <<")">>
    \o (IF args = <<>> THEN <<>> ELSE <<".","f","o","r","m","a","t","(">> \o Join(args, <<","," ">>) \o <<")">>)

\* a call of _ or a method call chained on a call of _, with the span it is written in
TranslationSpans(body) ==
    {<<LocationKey(ModuleText(body), e.off),
       LocationKey(ModuleText(body), e.off + Len(Src(e.node)))>> :
        e \in {d \in NodeSet(body) :
                  /\ d.node.t = "Call"
                  /\ \/ d.node.func = Name(<<"_">>)
                     \/ /\ d.node.func.t = "Attribute"
                        /\ d.node.func.value.t = "Call"
                        /\ d.node.func.value.func = Name(<<"_">>)}}

Within(location, span) == ~PosLess(location, span[1]) /\ PosLess(location, span[2])

(***************************************************************************)
(* Properties.                                                             *)
(***************************************************************************)
\* C1: when the spans of the replacement list are pairwise disjoint, the bytes the patch loop
\* produces are the source bytes with each span replaced by its replacement's bytes and every
\* byte outside the spans kept, in order; with no replacement the output is the input.
PatchExact ==
    (patch.pc = "done" /\ NonOverlapping(patch.source_bytes, patch.conversions_made))
        => patch.final_source_bytes = Expected(patch.source_bytes, patch.conversions_made)

\* two disjoint spans, recorded first to last, both spliced in
PatchExactWitness ==
    /\ patch.pc = "done"
    /\ Len(patch.conversions_made) = 2
    /\ NonOverlapping(patch.source_bytes, patch.conversions_made)
    /\ PosLess(StartKey(patch.conversions_made[1]), StartKey(patch.conversions_made[2]))
    /\ Len(patch.st.applied) = 2
    /\ patch.final_source_bytes # patch.source_bytes

\* C2: a file for which the analysis returned no candidate keeps the bytes it had when the run
\* began and is not among the files the run has written; only a file with a candidate and a
\* recorded replacement is written, and files_modified counts exactly the written files.
NoCandidateNoWrite ==
    /\ \A f \in FileIds :
          (f < cur /\ fstrings[f] = <<>>) => (disk[f] = before[f] /\ f \notin written[run])
    /\ \A f \in written[run] :
          fstrings[f] # <<>> /\ (patch.file = f => patch.conversions_made # <<>>)
    /\ stats.files_modified = Cardinality(written[run])

\* a real run is past a file that had no candidate
NoCandidateNoWriteWitness ==
    /\ ~dry_run /\ run = 1 /\ cur > NumFiles
    /\ \E f \in FileIds : fstrings[f] = <<>> /\ stats.files_scanned = NumFiles /\ disk[f] = before[f]

\* C3: the analysis of a file the previous run converted and wrote returns no candidate.
SecondAnalysisEmpty ==
    \A f \in FileIds : (run > 1 /\ f \in written[run - 1]) => fstrings[f] = <<>>

\* C4: no candidate the analysis returns lies within the span of a call of _ or of a method
\* call chained on a call of _, arguments of the chained call included.
NoCandidateInTranslation ==
    pc = "convert" =>
        \A i \in 1..Len(fstrings[cur]) : \A span \in TranslationSpans(ast[cur]) :
            ~Within(fstrings[cur][i].location, span)

\* the analysed file has an f-string among the arguments of .format chained on a call of _,
\* and candidates elsewhere
NoCandidateInTranslationWitness ==
    /\ pc = "convert"
    /\ fstrings[cur] # <<>>
    /\ \E e \in NodeSet(ast[cur]) : \E span \in TranslationSpans(ast[cur]) :
          /\ e.node.t = "JoinedStr"
          /\ Within(LocationKey(ModuleText(ast[cur]), e.off), span)
          /\ span[1] # LocationKey(ModuleText(ast[cur]), e.off)

FormatArgsAsWritten ==
    patch.pc = "done" =>
        \A i \in 1..Len(patch.conversions_made) :
            LET rep == patch.conversions_made[i]
                n == TargetOf(patch.tree, rep)
            IN  n.t = "JoinedStr" =>
                    rep.replacement_text =
                        CallText(EmittedLiteral(rep.replacement_text), SrcAll(Embedded(n)))

\* C6, amended: each of the N arguments is the embedded expression as ast.unparse writes it
\* (the same expression, in normalised layout), in order; with N = 0 there is no .format.
FormatArgsUnparsed ==
    patch.pc = "done" =>
        \A i \in 1..Len(patch.conversions_made) :
            LET rep == patch.conversions_made[i]
                n == TargetOf(patch.tree, rep)
            IN  n.t = "JoinedStr" =>
                    rep.replacement_text =
                        CallText(EmittedLiteral(rep.replacement_text), UnparseAll(Embedded(n)))

\* an f-string with two different embedded expressions and one with none have been replaced
FormatArgsUnparsedWitness ==
    /\ patch.pc = "done"
    /\ \E i, j \in 1..Len(patch.conversions_made) :
          LET n == TargetOf(patch.tree, patch.conversions_made[i])
              m == TargetOf(patch.tree, patch.conversions_made[j])
          IN  /\ n.t = "JoinedStr" /\ Len(Embedded(n)) = 2 /\ Embedded(n)[1] # Embedded(n)[2]
              /\ m.t = "JoinedStr" /\ Embedded(m) = <<>>

\* C7: the string literal written inside _( ) parses back to the value of the literal that was
\* replaced, or to the template of the f-string that was replaced.
EscapingRoundTrip ==
    patch.pc = "done" =>
        \A i \in 1..Len(patch.conversions_made) :
            LET rep == patch.conversions_made[i]
                n == TargetOf(patch.tree, rep)
                literal == EmittedLiteral(rep.replacement_text)
            IN  /\ StartsWith(rep.replacement_text, <<"_","(">> \o literal \o <<")">>)
                /\ n.t = "Constant" =>
                      /\ ParseLit(literal) = n.value
                      /\ rep.replacement_text = CallText(literal, <<>>)
                /\ n.t = "JoinedStr" => ParseLit(literal) = Concat(ContentParts(n.values))

\* a literal with both quotes, a backslash and a line break in its value has been replaced
EscapingRoundTripWitness ==
    /\ patch.pc = "done"
    /\ \E i \in 1..Len(patch.conversions_made) :
          LET n == TargetOf(patch.tree, patch.conversions_made[i])
          IN  /\ n.t = "Constant"
              /\ {SQ, DQ, BS, "\n"} \subseteq CharSet(n.value)

ScenarioLine == <<"p","r","i","n","t","(","f","\"","H","e","l","l","o"," ","{","n","a","m","e","}","!","\"",")","\n">>
ScenarioConverted == <<"p","r","i","n","t","(","_","(","'","H","e","l","l","o"," ","{","}","!","'",")",".","f","o","r","m","a","t","(","n","a","m","e",")",")","\n">>
ScenarioOtherLines == {<<>>, <<"p","r","i","n","t","(","\"","=","=","=","=","\"",")"," "," ","#"," ","U2705","\n">>, <<"x"," ","="," ","_","(","\"","S","a","v","e"," ","c","h","a","n","g","e","s","?","\"",")","\n">>}

\* C8: a real run turns the line print(f"Hello {name}!") into
\* print(_('Hello {}!').format(name)) and leaves the other lines of the file as they were.
ScenarioA ==
    \A f \in FileIds : \A above, below \in ScenarioOtherLines :
        (run = 1 /\ ~dry_run /\ f < cur /\ before[f] = Encode(above \o ScenarioLine \o below))
            => disk[f] = Encode(above \o ScenarioConverted \o below)

\* the run has converted the file whose second line is the line of the scenario
ScenarioAWitness ==
    /\ run = 1 /\ ~dry_run /\ cur > NumFiles
    /\ \E f \in FileIds :
          /\ before[f] = Encode(<<"p","r","i","n","t","(","\"","=","=","=","=","\"",")"," "," ","#"," ","U2705","\n">> \o ScenarioLine)
          /\ disk[f] # before[f]
          /\ f \in written[run]

\* C9: the spans are byte spans: each applied replacement takes the place of exactly the bytes
\* of a string literal, from its prefix or opening quote to its closing quote, and the output
\* is the encoding of the text with the literals replaced, every other character, multi-byte
\* ones included, encoded as before.
ByteSpansExact ==
    patch.pc = "done" =>
        /\ patch.final_source_bytes =
               Encode(ModuleText(ReparseModule(patch.tree, fstrings[patch.file])))
        /\ \A i \in 1..Len(patch.st.applied) :
              LET cut == Slice(patch.source_bytes,
                               StartIdx(patch.line_start_indices, patch.st.applied[i]),
                               EndIdx(patch.line_start_indices, patch.st.applied[i]))
              IN  /\ cut = Encode(Src(TargetOf(patch.tree, patch.st.applied[i])))
                  /\ Head(cut) \in {<<"f", 1>>, <<SQ, 1>>, <<DQ, 1>>}
                  /\ cut[Len(cut)] \in {<<SQ, 1>>, <<DQ, 1>>}

\* a replacement has been applied after a multi-byte character of its own line
ByteSpansExactWitness ==
    /\ patch.pc = "done"
    /\ \E i \in 1..Len(patch.st.applied) :
          \E k \in (patch.line_start_indices[patch.st.applied[i].start_line] + 1)
                   ..StartIdx(patch.line_start_indices, patch.st.applied[i]) :
              patch.source_bytes[k][2] > 1

\* C10: the bytes the patch loop produced are the bytes it produces for every order the
\* replacement list can be recorded in.
OrderIrrelevant ==
    patch.pc = "done" =>
        \A reps \in Orders(patch.conversions_made) :
            PatchBytes(patch.source_bytes, reps) = patch.final_source_bytes

\* a list recorded first to last, not in the order the loop applies it, has been applied
OrderIrrelevantWitness ==
    /\ patch.pc = "done"
    /\ Len(patch.conversions_made) >= 2
    /\ patch.conversions_made # patch.replacements
    /\ Len(patch.st.applied) = Len(patch.conversions_made)
    /\ patch.final_source_bytes # patch.source_bytes

\* the loop of scan_and_convert is over, or the run has stopped on an exception
Finished == pc = "aborted" \/ (pc = "analyze" /\ cur > NumFiles)

\* C11: a real run that follows a dry run starts from the file contents the dry run started
\* from (the dry run wrote nothing and counted no modified file), and it ends with the same
\* candidates, the same replacements and byte buffer, the same detail records and, but for
\* files_modified, the same statistics; the real run has written that buffer.
DryRunEquivalence ==
    (run > 1 /\ last_run.dry_run /\ ~dry_run /\ Finished) =>
        /\ before = last_run.before
        /\ written[run - 1] = {}
        /\ last_run.stats.files_modified = 0
        /\ fstrings = last_run.fstrings
        /\ patch = last_run.patch
        /\ all_conversions = last_run.all_conversions
        /\ stats = [last_run.stats EXCEPT !.files_modified = Cardinality(written[run])]
        /\ \A f \in DOMAIN disk :
              /\ last_run.outcome[f] = "would_convert" <=> outcome[f] = "converted"
              /\ outcome[f] = "converted" =>
                    f \in written[run] /\ (patch.file = f => disk[f] = patch.final_source_bytes)

\* a dry run that found replacements has been followed by a real run that applied them
DryRunEquivalenceWitness ==
    /\ run > 1 /\ last_run.dry_run /\ ~dry_run /\ Finished
    /\ last_run.patch.pc = "done"
    /\ Len(last_run.all_conversions) >= 2
    /\ \E f \in DOMAIN disk : outcome[f] = "converted" /\ disk[f] # before[f]

\* C12: at the end of a run every file has been processed, a file that could not be read,
\* decoded or parsed holds the bytes it held, and every healthy file with candidates has
\* been converted (or, in a dry run, reported as convertible).
FailSoft ==
    Finished =>
        \A f \in DOMAIN disk :
            /\ outcome[f] # "pending"
            /\ fault[f] \in AnalyzeFaults \cup {"too_deep"} => disk[f] = before[f]
            /\ (fault[f] = "none" /\ Analyze(ast[f]) # <<>> /\ f \notin written[run]) =>
                   outcome[f] = "would_convert"

\* C13: a file differs from what it was when the run began only if convert_file returned
\* True for it in a real run, and then the file holds the complete buffer of the patch loop;
\* a convert_file that failed before its write has returned False and left the file alone.
AllOrNothingWrite ==
    \A f \in DOMAIN disk :
        /\ disk[f] # before[f] =>
              /\ outcome[f] = "converted" /\ ~dry_run /\ f \in written[run]
              /\ patch.file = f => patch.pc = "done" /\ disk[f] = patch.final_source_bytes
        /\ outcome[f] = "failed_or_skipped" => disk[f] = before[f] /\ f \notin written[run]
        /\ (fault[f] = "vanishes" /\ cur > f) => outcome[f] = "failed_or_skipped"

\* in a real run convert_file has failed on its read for one file, and has written another
AllOrNothingWriteWitness ==
    /\ ~dry_run
    /\ \E f, g \in DOMAIN disk :
          /\ fault[f] = "vanishes" /\ outcome[f] = "failed_or_skipped" /\ fstrings[f] # <<>>
          /\ outcome[g] = "converted" /\ disk[g] # before[g]

\* C14: with backups enabled, a real run has overwritten only files it has backed up.
BackupBeforeWrite ==
    (backup /\ ~dry_run) => written[run] \subseteq backups

\* the call of the classifier has returned, with this verdict
Accepted == call.op = "classify" /\ call.pc = "return" /\ call.result = TRUE
Rejected == call.op = "classify" /\ call.pc = "return" /\ call.result = FALSE

\* C15: whatever the context line is, the classifier rejects the contents "----",
\* "import os" and "====".
BoundaryRejects ==
    \A content \in {<<"-","-","-","-">>, <<"i","m","p","o","r","t"," ","o","s">>, <<"=","=","=","=">>} : Classified(content) => Rejected

\* "import os" has been rejected on a line that starts with print(
BoundaryRejectsWitness ==
    Classified(<<"i","m","p","o","r","t"," ","o","s">>) /\ ContextAccepts(call.args[2]) /\ Rejected

\* C16: whatever the context line is, the classifier accepts the contents
\* "<U+2705> Operation complete" and "Are you sure you want to continue?".
BoundaryAccepts ==
    \A content \in {<<"U2705"," ","O","p","e","r","a","t","i","o","n"," ","c","o","m","p","l","e","t","e">>, <<"A","r","e"," ","y","o","u"," ","s","u","r","e"," ","y","o","u"," ","w","a","n","t"," ","t","o"," ","c","o","n","t","i","n","u","e","?">>} :
        Classified(content) => Accepted

\* C17: a string the classifier accepts matches one of the accept rules: a pictograph with a
\* meaningful word, at least 3 words with a user-facing vocabulary term, at least 3 words
\* with sentence punctuation that are not all upper-case or numeric, or a context line
\* that starts with print(, input( or _(.  Every other string is rejected.
DefaultReject ==
    Accepted =>
        \/ EmojiWithText(call.args[1])
        \/ KeywordSentence(call.args[1])
        \/ PlainSentence(call.args[1])
        \/ ContextAccepts(call.args[2])

\* C17 as the specification words it: the three rules on the content are the only ones
DefaultRejectContentRules ==
    Accepted =>
        \/ EmojiWithText(call.args[1])
        \/ KeywordSentence(call.args[1])
        \/ PlainSentence(call.args[1])

\* a content that is not technical and matches no accept rule has been rejected
DefaultRejectWitness ==
    /\ Rejected
    /\ ~IsTechnical(call.args[1])
    /\ Len(Words(call.args[1])) >= 2

BoxDrawing == CharSet(<<"U2500","U2510","U2518","U250C","U2514","U256D","U256E","U2570","U256F">>)

\* one of =, - or a box-drawing character, repeated
DecorativeRun(content) ==
    /\ Len(content) >= 2
    /\ Cardinality(CharSet(content)) = 1
    /\ content[1] \in {"=", "-"} \cup BoxDrawing

PathLike(content) == (HasChar(content, "/") \/ HasChar(content, BS)) /\ ~HasChar(content, " ")

HasCodeMarker(content) == AnyIn(technical_patterns, Lower(content))

\* C18: whatever the context line is, the classifier rejects a decorative run, pure
\* whitespace, a path-like string without spaces and a string with a code marker, also
\* when an accept rule matches.
RejectsTechnical ==
    (/\ call.op = "classify" /\ call.pc = "return"
     /\ \/ DecorativeRun(call.args[1])
        \/ Strip(call.args[1]) = <<>>
        \/ PathLike(call.args[1])
        \/ HasCodeMarker(call.args[1])) => Rejected

Punctuation ==
    {"!", DQ, "#", "$", "%", "&", SQ, "(", ")", "*", "+", ",", "-", ".", "/", ":", ";", "<", "=",
     ">", "?", "@", "[", BS, "]", "^", "_", "{", "|", "}", "~"}

RECURSIVE StripPlaceholders(_)
\* text without its {...} placeholders
StripPlaceholders(text) ==
    IF text = <<>> THEN <<>>
    ELSE IF Head(text) = "{" /\ HasChar(text, "}")
    THEN StripPlaceholders(SubSeq(text, 1 + (CHOOSE i \in 1..Len(text) :
                                                  text[i] = "}" /\ \A j \in 1..(i - 1) : text[j] # "}"),
                                  Len(text)))
    ELSE <<Head(text)>> \o StripPlaceholders(Tail(text))

\* what is left of a content without placeholders, punctuation and whitespace
Residue(content) ==
    SelectSeq(StripPlaceholders(content), LAMBDA c : c \notin Punctuation \cup Whitespace)

IsAlnum(text) ==
    text # <<>> /\ \A i \in 1..Len(text) : IsUpperChar(text[i]) \/ IsLowerChar(text[i]) \/ text[i] \in Digits

\* C19: whatever the context line is, the classifier rejects a content of which at most 3
\* characters are left once placeholders and punctuation are stripped, unless what is left
\* is alphanumeric.
ShortResidueRejected ==
    (/\ call.op = "classify" /\ call.pc = "return"
     /\ Len(Residue(call.args[1])) <= 3
     /\ ~IsAlnum(Residue(call.args[1]))) => Rejected

\* C20: the placeholder of an embedded expression is { , then ! and the conversion flag if
\* there is one, then : and the text of the format specifier as written if there is one,
\* then } .
PlaceholderVerbatim ==
    (call.op = "placeholder" /\ call.pc = "return") =>
        call.result = <<"{">> \o ConversionSrc(call.args[1].conversion)
                      \o (IF call.args[1].format_spec = NoSpec THEN <<>>
                          ELSE <<":">> \o Src(call.args[1].format_spec))
                      \o <<"}">>

\* the analyzer has returned the candidates of call.args[1]
Analyzed == call.op = "analyze" /\ call.pc \in {"analyzed", "return"}

\* C21: the candidates the analyzer returns for a file are in ascending (line, column)
\* order of their start locations.
CandidatesAscending ==
    Analyzed =>
        \A i, j \in 1..Len(call.result.strings_to_convert) :
            i < j => PosLess(call.result.strings_to_convert[i].location,
                             call.result.strings_to_convert[j].location)

\* the strings and string parts of a module, each with the offsets of its first character and of its end
StringSpans(body) ==
    {[node |-> e.node, start |-> e.off, end |-> e.off + Len(Src(e.node)),
      location |-> LocationKey(ModuleText(body), e.off)] :
        e \in {d \in NodeSet(body) : d.node.t \in {"JoinedStr", "Constant"}}}

\* the string a candidate was recorded for
CandidateSpan(body, candidate) ==
    CHOOSE s \in StringSpans(body) : s.location = candidate.location /\ s.node.t = candidate.type

\* C22: no two candidates of a file start at the same location, no candidate's span overlaps
\* or lies inside another candidate's span, and no candidate starts inside an interpolated
\* string of the file, accepted or not.
CandidatesDisjoint ==
    Analyzed =>
        LET body == call.args[1]
            found == call.result.strings_to_convert
        IN  /\ \A i, j \in 1..Len(found) :
                  i < j => /\ found[i].location # found[j].location
                           /\ \/ CandidateSpan(body, found[i]).end <= CandidateSpan(body, found[j]).start
                              \/ CandidateSpan(body, found[j]).end <= CandidateSpan(body, found[i]).start
            /\ \A i \in 1..Len(found) :
                  \A s \in StringSpans(body) :
                      (s.node.t = "JoinedStr" /\ IsString(s.node)) =>
                          ~(s.start < CandidateSpan(body, found[i]).start
                            /\ CandidateSpan(body, found[i]).start < s.end)

\* two candidates have been returned for a file with an f-string inside an accepted f-string
CandidatesDisjointWitness ==
    /\ Analyzed
    /\ Len(call.result.strings_to_convert) >= 2
    /\ \E s, t \in StringSpans(call.args[1]) :
          /\ IsString(s.node) /\ IsString(t.node)
          /\ s.start < t.start /\ t.end < s.end
          /\ \E i \in 1..Len(call.result.strings_to_convert) :
                call.result.strings_to_convert[i].location = s.location

RECURSIVE FieldCount(_)
\* the number of replacement fields str.format finds in a template
FieldCount(template) ==
    IF template = <<>> THEN 0
    ELSE IF Len(template) >= 2 /\ template[1] = template[2] /\ template[1] \in {"{", "}"}
    THEN FieldCount(SubSeq(template, 3, Len(template)))
    ELSE IF template[1] = "{" /\ HasChar(template, "}")
    THEN 1 + FieldCount(SubSeq(template,
                               1 + (CHOOSE i \in 1..Len(template) :
                                       template[i] = "}" /\ \A j \in 1..(i - 1) : template[j] # "}"),
                               Len(template)))
    ELSE FieldCount(Tail(template))

\* C28: the template of a converted interpolated string with N > 0 variables has exactly N
\* replacement fields when it is read as a str.format template.
TemplateFieldsMatch ==
    (call.op = "analyze" /\ call.pc = "return") =>
        \A i \in 1..Len(call.result.conversions_made) :
            call.result.conversions_made[i].variables # <<>> =>
                FieldCount(call.result.conversions_made[i].template)
                    = Len(call.result.conversions_made[i].variables)

\* C29: fstrings_converted is the number of detail records in all_conversions, and it is
\* at most fstrings_found.
ReportConsistent ==
    /\ stats.fstrings_converted = Len(all_conversions)
    /\ stats.fstrings_converted <= stats.fstrings_found

ReturnedFrom(op) == call.op = op /\ call.pc = "return"

\* C24: auto_fix_all leaves the number of lines of every file alone and changes a line only if
\* find_variable_uses reported it, it holds no _('text') translation call, the file is not a
\* protected one, and the ignore list does not name the line
AutoFixFrame ==
    ReturnedFrom("auto_fix_all") =>
        \A f \in 1..Len(call.args[1]) :
            LET file == call.args[1][f]
                old == StrSplitLines(ReadText(file.raw), FALSE)
                new == StrSplitLines(ReadText(call.result[f].raw), FALSE)
                findings == find_variable_uses(file.path, file.raw)
            IN  /\ Len(new) = Len(old)
                /\ \A k \in 1..Len(old) :
                      new[k] # old[k] =>
                          /\ \E n \in 1..Len(findings) : findings[n].line_num = k
                          /\ ~is_translation_call(old[k])
                          /\ ~is_protected_file(file.path)
                          /\ <<file.path, k>> \notin call.args[2]

\* C25: after auto_fix_missing_imports no file of the directory needs the import, a second run
\* changes nothing, and a file has gained the import line at most once
ImportInjectionIdempotent ==
    (call.op = "auto_fix_missing_imports" /\ call.pc \in {"again", "return"}) =>
        /\ find_files_needing_i18n_import(call.result[1]) = <<>>
        /\ call.pc = "return" => call.result[2] = call.result[1]
        /\ \A f \in 1..Len(call.args[1]) :
              CountSub(call.result[Len(call.result)][f].raw, import_line)
                  <= CountSub(call.args[1][f].raw, import_line) + 1

\* both runs are over, and the first one put the import after a last line without a line feed
ImportInjectionIdempotentWitness ==
    /\ ReturnedFrom("auto_fix_missing_imports")
    /\ \E f \in 1..Len(call.args[1]) :
          LET raw == call.args[1][f].raw
          IN  /\ call.result[1][f].raw = raw \o import_line
              /\ raw[Len(raw)] # "\n"

\* the text of the lines, the number of opening brackets less the number of closing ones
BracketDepth(lines) == CountSub(Concat(lines), <<"(">>) - CountSub(Concat(lines), <<")">>)

\* a line put at index idx of the lines is at module top level: it is not inside a
\* triple-quoted string, a bracketed statement or an indented block
TopLevel(lines, idx) ==
    LET above == SubSeq(lines, 1, idx)
    IN  /\ CountSub(Concat(above), TripleDQ) % 2 = 0
        /\ CountSub(Concat(above), TripleSQ) % 2 = 0
        /\ BracketDepth(above) = 0
        /\ idx < Len(lines) => lines[idx + 1][1] \notin {" ", "\t"}

\* C26: inject_i18n_import adds one line to the lines of the file, which stay as they were
\* and in their order, and the place of the new line is at module top level
InjectAtTopLevel ==
    ReturnedFrom("inject_i18n_import") =>
        LET old == ReadLines(call.args[1])
            new == ReadLines(call.result)
        IN  \E idx \in 0..Len(old) :
                /\ new = SubSeq(old, 1, idx) \o <<import_line>> \o SubSeq(old, idx + 1, Len(old))
                /\ TopLevel(old, idx)

\* C23: in a dry run of do_refactor no step changes the bytes of a file, makes a backup or
\* writes a file
DryRunTouchesNothing ==
    [][(call.op = "do_refactor" /\ dry_run) =>
           (disk' = disk /\ backups' = backups /\ written' = written)]_vars

\* a dry run is over in a directory where each step had something to do: a lazy placeholder,
\* an f-string to convert, a file without the import
DryRunTouchesNothingWitness ==
    /\ call.op = "do_refactor" /\ call.pc = "return" /\ dry_run
    /\ \E f \in DOMAIN disk : Fixed(f) # Decode(disk[f])
    /\ \E f \in DOMAIN disk : outcome[f] = "would_convert"
    /\ \E f \in DOMAIN disk : Injected(f) # Decode(disk[f])

\* C27: when a do_refactor that is not a dry run has ended and no file was faulty, every file
\* the converter has rewritten imports _ (file_has_i18n_import holds for it)
ConvertedFilesImport ==
    (/\ call.op = "do_refactor" /\ call.pc = "return" /\ ~dry_run
     /\ \A f \in DOMAIN disk : fault[f] = "none")
        => \A f \in DOMAIN disk :
              outcome[f] = "converted" => file_has_i18n_import(ReadText(Decode(disk[f])))

\* what the loop of _translate_google_fallback_v5 has done for segment number k
SegmentDone(k) ==
    LET segment == call.result.segments[k]
        text == call.result.translated_segments[k]
        attempts == call.result.attempts[k]
    IN  /\ Len(attempts) <= 3
        /\ \A n \in 1..(Len(attempts) - 1) : attempts[n] = "429"
        /\ text = segment \/ (attempts # <<>> /\ attempts[Len(attempts)] = "returned")
        /\ FullMatch(placeholder_pattern, segment) => (text = segment /\ attempts = <<>>)

\* C30: _translate_google_fallback_v5 hands a segment to the translator at most 3 times and
\* again only after an error with '429'; every segment handled so far has put one element in
\* translated_segments, at its own position, and the element of a placeholder is the placeholder
TranslateSegments ==
    call.op = "_translate_google_fallback_v5" =>
        /\ Len(call.result.translated_segments) <= Len(call.result.segments)
        /\ Len(call.result.attempts) = Len(call.result.translated_segments)
        /\ Len(call.result.tried) = call.result.attempt
        /\ call.result.attempt < 3
        /\ \A n \in 1..Len(call.result.tried) : call.result.tried[n] = "429"
        /\ \A k \in 1..Len(call.result.translated_segments) : SegmentDone(k)
        /\ call.pc = "return" => Len(call.result.translated_segments) = Len(call.result.segments)

\* the function has returned for a text with a placeholder and a segment that took three
\* attempts
TranslateSegmentsWitness ==
    /\ call.op = "_translate_google_fallback_v5" /\ call.pc = "return"
    /\ \E k \in 1..Len(call.result.segments) :
          /\ FullMatch(placeholder_pattern, call.result.segments[k])
          /\ \E n \in 1..Len(call.result.segments) :
                /\ n > k
                /\ Len(call.result.attempts[n]) = 3
                /\ call.result.translated_segments[n] # call.result.segments[n]
====
